---- MODULE Spec2Model ----
(***************************************************************************)
(* Account lifecycle of the outreach CRM (outreach_engine/account_manager). *)
(*                                                                         *)
(* The contacts table and the touch_log table are the state.  Every public *)
(* function of account_manager is one action; the function bodies are the  *)
(* operators of the same name, which map a database value to the database  *)
(* value after the call and the value returned.                            *)
(*                                                                         *)
(* Dates are day numbers (date.today().isoformat() strings compare as the  *)
(* days they denote); EmptyDate is the '' of an unset date column.         *)
(***************************************************************************)
EXTENDS Integers, Sequences, FiniteSets, Bags, TLC

VARIABLES
    contacts,    \* contacts table: id -> row
    touch_log,   \* touch_log table: a bag of rows
    today,       \* date.today()
    last,        \* the last call made and what it returned
    workers,     \* calls in progress, statement by statement (SpecConc)
    cfg,         \* the configuration object: cfg.confidence_weights
    net,         \* what DNS, the web, the search engine, Hunter and the mail
                 \* server answer (SpecDiscovery)
    email_discovery_log,  \* email_discovery_log table: a bag of rows
    lru,         \* the lru_cache of validate_mx and of is_catch_all
    hour,        \* the hour of the day
    connections  \* history: the connections opened to mail servers

vars == <<contacts, touch_log, today, last, workers, cfg, net,
          email_discovery_log, lru, hour, connections>>

----------------------------------------------------------------------------
(* Bounds of the model. *)

\* the clock runs from day 1 to day MaxDay
MaxDay == 2
\* at most MaxTouch rows of touch_log per contact
MaxTouch == 5
\* the clock runs from hour 0 to hour HoursPerDay - 1 of each day
HoursPerDay == 2
\* the connections to mail servers are counted up to MaxConnections per hour
\* and per day: a count of MaxConnections stands for that many or more
MaxConnections == 6

\* bounce_count grows without bound in the program; the model stops at
\* MaxBounces
MaxBounces == 3

\* cfg.revisit_no_reply_days and cfg.revisit_negative_days: operator-set
\* options read at account_manager.py:179 and :383; the model keeps the
\* default order (negative replies wait longer) with small values.
revisit_no_reply_days == 1
revisit_negative_days == 2

\* the largest weight, in absolute value, of the weight tables tried besides
\* the default one
MaxWeight == 60

----------------------------------------------------------------------------
(* Vocabulary. *)

EmptyDate == 0

Statuses == {"cold", "contacted", "engaged", "qualified", "partnered", "revisit", "dnc"}

\* what a caller may pass as new_status: any string; "explicit-no" stands for
\* the strings that are no account status
Targets == Statuses \cup {"explicit-no"}

Sentiments == {"positive", "neutral", "negative"}

\* the contacts of the model: the jobs and hooks treat every contact on its
\* own (no statement reads one contact's row or touches to write another's)
ContactIds == {1}
\* an id with no row: the contact_id a caller passes for a bundle without one
\* (sidecar.py:514)
AbsentId == 0
\* ids a caller may pass
CallIds == DOMAIN contacts \cup {AbsentId}

\* mutant: a parked contact may be moved straight back to contacted
VALID_TRANSITIONS_Reopen ==
    [old \in {"cold", "contacted", "engaged", "qualified", "partnered", "revisit"} |->
        CASE old = "cold"      -> {"contacted", "revisit", "dnc"}
          [] old = "contacted" -> {"engaged", "revisit", "dnc"}
          [] old = "engaged"   -> {"qualified", "revisit", "dnc"}
          [] old = "qualified" -> {"partnered", "revisit", "dnc"}
          [] old = "partnered" -> {"revisit", "dnc"}
          [] old = "revisit"   -> {"cold", "contacted", "dnc"}]

VALID_TRANSITIONS ==
    [old \in {"cold", "contacted", "engaged", "qualified", "partnered", "revisit"} |->
        CASE old = "cold"      -> {"contacted", "revisit", "dnc"}
          [] old = "contacted" -> {"engaged", "revisit", "dnc"}
          [] old = "engaged"   -> {"qualified", "revisit", "dnc"}
          [] old = "qualified" -> {"partnered", "revisit", "dnc"}
          [] old = "partnered" -> {"revisit", "dnc"}
          [] old = "revisit"   -> {"cold", "dnc"}]

\* VALID_TRANSITIONS.get(old_status, set())
Allowed(old_status) ==
    IF old_status \in DOMAIN VALID_TRANSITIONS THEN VALID_TRANSITIONS[old_status] ELSE {}

\* row["account_status"] or "cold"
StatusOrCold(account_status) ==
    IF account_status = "" THEN "cold" ELSE account_status

----------------------------------------------------------------------------
(* The database. *)

Db == [contacts |-> contacts, touch_log |-> touch_log]

\* UPDATE contacts SET <updates> WHERE id = contact_id
UpdateContact(db, contact_id, updates) ==
    IF contact_id \in DOMAIN db.contacts
    THEN [db EXCEPT !.contacts[contact_id] = updates @@ @]
    ELSE db

\* INSERT INTO touch_log (contact_id, channel, direction, subject, ...)
InsertTouch(db, contact_id, channel, direction, subject) ==
    [db EXCEPT !.touch_log = @ (+) SetToBag({[contact_id |-> contact_id,
                                              channel |-> channel,
                                              direction |-> direction,
                                              subject |-> subject]})]

\* the distinct touch_log rows of a contact
TouchesOf(log, contact_id) == {t \in DOMAIN log : t.contact_id = contact_id}

\* SELECT COUNT(*) FROM touch_log over the rows in the set rows
TouchCount(log, rows) == BagCardinality([t \in rows |-> log[t]])

----------------------------------------------------------------------------
(* Confidence scorer. *)

\* the default table of cfg.confidence_weights
confidence_weights ==
    [email_verified |-> 20, email_likely |-> 10, decision_maker_found |-> 15,
     website_exists |-> 10, phone_exists |-> 10, high_value_tier |-> 10,
     has_news_signal |-> 10, account_engaged |-> 10, has_opens |-> 5,
     recent_activity |-> 10]

\* a sent_at that datetime.fromisoformat rejects
Unparsable == -1

RecentDays == 30

Min(a, b) == IF a < b THEN a ELSE b
Max(a, b) == IF a > b THEN a ELSE b

\* mutant: a phone number on file lowers the score
RawScore_PhonePenalty(row, w) ==
    (IF row.email_status = "verified" THEN w.email_verified
     ELSE IF row.email_status = "likely" THEN w.email_likely ELSE 0)
    + (IF row.decision_maker_found # 0 \/ (row.contact_name # "" /\ row.title_role # "")
       THEN w.decision_maker_found ELSE 0)
    + (IF row.website # "" THEN w.website_exists ELSE 0)
    - (IF row.phone # "" THEN w.phone_exists ELSE 0)
    + (IF row.tier \in {"A", "HOT"} THEN w.high_value_tier ELSE 0)
    + (IF row.signal_count > 0 THEN w.has_news_signal ELSE 0)
    + (IF StatusOrCold(row.account_status) \in {"engaged", "qualified", "partnered"}
       THEN w.account_engaged ELSE 0)
    + (IF row.has_opens > 0 THEN w.has_opens ELSE 0)
    + (IF row.last_sent # EmptyDate /\ row.last_sent # Unparsable
          /\ today - row.last_sent <= RecentDays
       THEN w.recent_activity ELSE 0)

\* the sum compute_confidence_score builds from one row of its SELECT
\* (the contact's columns and the three subquery columns), before clamping
RawScore(row, w) ==
    (IF row.email_status = "verified" THEN w.email_verified
     ELSE IF row.email_status = "likely" THEN w.email_likely ELSE 0)
    + (IF row.decision_maker_found # 0 \/ (row.contact_name # "" /\ row.title_role # "")
       THEN w.decision_maker_found ELSE 0)
    + (IF row.website # "" THEN w.website_exists ELSE 0)
    + (IF row.phone # "" THEN w.phone_exists ELSE 0)
    + (IF row.tier \in {"A", "HOT"} THEN w.high_value_tier ELSE 0)
    + (IF row.signal_count > 0 THEN w.has_news_signal ELSE 0)
    + (IF StatusOrCold(row.account_status) \in {"engaged", "qualified", "partnered"}
       THEN w.account_engaged ELSE 0)
    + (IF row.has_opens > 0 THEN w.has_opens ELSE 0)
    + (IF row.last_sent # EmptyDate /\ row.last_sent # Unparsable
          /\ today - row.last_sent <= RecentDays
       THEN w.recent_activity ELSE 0)

\* mutant: the sum is capped at 100 only
Clamp_UpperOnly(score) == Min(100, score)

\* score = max(0, min(100, score))
Clamp(score) == Max(0, Min(100, score))

\* compute_confidence_score(contact_id): the database after the call and the
\* value returned
compute_confidence_score(db, contact_id) ==
    IF contact_id \notin DOMAIN db.contacts
    THEN [db |-> db, ret |-> 0]
    ELSE LET score == Clamp(RawScore(db.contacts[contact_id], cfg.confidence_weights))
         IN  [db  |-> UpdateContact(db, contact_id, [confidence_score |-> score]),
              ret |-> score]

----------------------------------------------------------------------------
(* Validated transition. *)

\* a key the returned dict does not carry
NoKey == "<absent>"

Failure(error, old_status, new_status) ==
    [success |-> FALSE, error |-> error, old_status |-> old_status, new_status |-> new_status]

\* mutant: entering dnc names the next action and leaves the date as it was
TransitionUpdates_DncKeepsDate(new_status) ==
    [account_status |-> new_status, last_touch_date |-> today]
    @@ (IF new_status = "revisit"
        THEN [next_action_date |-> today + revisit_no_reply_days,
              next_action |-> "revisit_expiry"]
        ELSE IF new_status = "dnc"
        THEN [next_action |-> "permanent_dnc"]
        ELSE <<>>)

\* mutant: the validated revisit takes the negative-reply timer
TransitionUpdates_NegativeTimer(new_status) ==
    [account_status |-> new_status, last_touch_date |-> today]
    @@ (IF new_status = "revisit"
        THEN [next_action_date |-> today + revisit_negative_days,
              next_action |-> "revisit_expiry"]
        ELSE IF new_status = "dnc"
        THEN [next_action_date |-> EmptyDate, next_action |-> "permanent_dnc"]
        ELSE <<>>)

\* the columns of the UPDATE at account_manager.py:172-187
TransitionUpdates(new_status) ==
    [account_status |-> new_status, last_touch_date |-> today]
    @@ (IF new_status = "revisit"
        THEN [next_action_date |-> today + revisit_no_reply_days,
              next_action |-> "revisit_expiry"]
        ELSE IF new_status = "dnc"
        THEN [next_action_date |-> EmptyDate, next_action |-> "permanent_dnc"]
        ELSE <<>>)

\* old_status == "dnc": the transition is refused whatever the target
DncIsPermanent(old_status) == old_status = "dnc"

\* the writes of a validated transition (account_manager.py:172-209): the
\* UPDATE, the touch_log row, the score, and the dict returned
ApplyTransition(db, contact_id, old_status, new_status) ==
    LET updated == UpdateContact(db, contact_id, TransitionUpdates(new_status))
        logged  == InsertTouch(updated, contact_id, "email", "outbound", "Status")
    IN  [db  |-> compute_confidence_score(logged, contact_id).db,
         ret |-> [success |-> TRUE, error |-> NoKey,
                  old_status |-> old_status, new_status |-> new_status]]

\* mutant: the target is validated as a status, the edge is not
transition_account_status_TargetOnly(db, contact_id, new_status) ==
    IF contact_id \notin DOMAIN db.contacts
    THEN [db |-> db, ret |-> Failure("Contact not found", NoKey, NoKey)]
    ELSE LET old_status == StatusOrCold(db.contacts[contact_id].account_status) IN
         IF new_status \notin Statuses
         THEN [db |-> db, ret |-> Failure("Invalid transition", old_status, new_status)]
         ELSE ApplyTransition(db, contact_id, old_status, new_status)

\* mutant: the attempt is logged to touch_log before it is validated
transition_account_status_LogsFirst(db, contact_id, new_status) ==
    IF contact_id \notin DOMAIN db.contacts
    THEN [db |-> db, ret |-> Failure("Contact not found", NoKey, NoKey)]
    ELSE LET old_status == StatusOrCold(db.contacts[contact_id].account_status)
             logged     == InsertTouch(db, contact_id, "email", "outbound", "Status")
         IN
         IF DncIsPermanent(old_status)
         THEN [db |-> logged, ret |-> Failure("Contact is DNC", old_status, new_status)]
         ELSE IF new_status \notin Allowed(old_status)
         THEN [db |-> logged, ret |-> Failure("Invalid transition", old_status, new_status)]
         ELSE ApplyTransition(db, contact_id, old_status, new_status)

\* transition_account_status(contact_id, new_status): the database after the
\* call and the dict returned
transition_account_status(db, contact_id, new_status) ==
    IF contact_id \notin DOMAIN db.contacts
    THEN [db |-> db, ret |-> Failure("Contact not found", NoKey, NoKey)]
    ELSE LET old_status == StatusOrCold(db.contacts[contact_id].account_status) IN
         IF DncIsPermanent(old_status)
         THEN [db |-> db, ret |-> Failure("Contact is DNC", old_status, new_status)]
         ELSE IF new_status \notin Allowed(old_status)
         THEN [db |-> db, ret |-> Failure("Invalid transition", old_status, new_status)]
         ELSE ApplyTransition(db, contact_id, old_status, new_status)

\* mark_dnc(contact_id)
mark_dnc(db, contact_id) == transition_account_status(db, contact_id, "dnc")

----------------------------------------------------------------------------
(* Enforcement jobs. *)

\* the rows of a SELECT over contacts, in rowid order: the ids in S, ascending
RECURSIVE IdSeq(_)
IdSeq(S) ==
    IF S = {} THEN <<>>
    ELSE LET m == CHOOSE x \in S : \A y \in S : x <= y
         IN  <<m>> \o IdSeq(S \ {m})

\* mutant: a timer that ends today has not expired yet
RevisitExpired_Strict(row) ==
    /\ row.account_status = "revisit"
    /\ row.next_action_date # EmptyDate
    /\ row.next_action_date < today

\* WHERE account_status = 'revisit' AND next_action_date != '' AND next_action_date <= today
RevisitExpired(row) ==
    /\ row.account_status = "revisit"
    /\ row.next_action_date # EmptyDate
    /\ row.next_action_date <= today

RECURSIVE ExpiryLoop(_, _, _)
ExpiryLoop(db, rows, count) ==
    IF rows = <<>> THEN [db |-> db, ret |-> count]
    ELSE LET result == transition_account_status(db, Head(rows), "cold")
         IN  ExpiryLoop(result.db, Tail(rows),
                        IF result.ret.success THEN count + 1 ELSE count)

\* enforce_revisit_expiry()
enforce_revisit_expiry(db) ==
    ExpiryLoop(db, IdSeq({id \in DOMAIN db.contacts : RevisitExpired(db.contacts[id])}), 0)

\* t.channel = 'email' AND t.direction = 'outbound'
IsOutboundEmail(t) == t.channel = "email" /\ t.direction = "outbound"
\* t.direction = 'inbound'
IsInbound(t) == t.direction = "inbound"

OutboundCount(log, contact_id) ==
    TouchCount(log, {t \in TouchesOf(log, contact_id) : IsOutboundEmail(t)})
InboundCount(log, contact_id) ==
    TouchCount(log, {t \in TouchesOf(log, contact_id) : IsInbound(t)})

\* the SELECT of enforce_no_reply_revisit: one row per contact in cold or
\* contacted, with its two touch counts
NoReplyRows(db) ==
    LET ids == IdSeq({id \in DOMAIN db.contacts :
                        db.contacts[id].account_status \in {"cold", "contacted"}
                        /\ db.contacts[id].account_status # "dnc"})
    IN  [i \in 1..Len(ids) |->
            [id             |-> ids[i],
             account_status |-> db.contacts[ids[i]].account_status,
             outbound_count |-> OutboundCount(db.touch_log, ids[i]),
             inbound_count  |-> InboundCount(db.touch_log, ids[i])]]

\* the unanswered-touch threshold of account_manager.py:268
NoReplyTouches == 3

\* row["outbound_count"] >= 3 and row["inbound_count"] == 0
Unanswered(row) == row.outbound_count >= NoReplyTouches /\ row.inbound_count = 0

\* mutant: the cold contact is parked with a timer that ends the same day
NoReplyDirectUpdates_NoTimer ==
    [account_status   |-> "revisit",
     next_action_date |-> today,
     next_action      |-> "no_reply_revisit",
     last_touch_date  |-> today]

\* the columns of the direct UPDATE for a cold contact (account_manager.py:276-284)
NoReplyDirectUpdates ==
    [account_status   |-> "revisit",
     next_action_date |-> today + revisit_no_reply_days,
     next_action      |-> "no_reply_revisit",
     last_touch_date  |-> today]

\* mutant: the UPDATE after the validated transition resets the date only
NoReplyOverride_DateOnly ==
    [next_action_date |-> today + revisit_no_reply_days]

\* the columns of the UPDATE after the validated transition of a contacted
\* contact (account_manager.py:297-301)
NoReplyOverride ==
    [next_action_date |-> today + revisit_no_reply_days,
     next_action      |-> "no_reply_revisit"]

\* one iteration of the loop of enforce_no_reply_revisit
NoReplyStep(db, row) ==
    IF ~Unanswered(row) THEN [db |-> db, parked |-> 0]
    ELSE IF row.account_status = "cold"
    THEN [db |-> UpdateContact(db, row.id, NoReplyDirectUpdates), parked |-> 1]
    ELSE IF row.account_status = "contacted"
    THEN LET result == transition_account_status(db, row.id, "revisit") IN
         IF result.ret.success
         THEN [db |-> UpdateContact(result.db, row.id, NoReplyOverride), parked |-> 1]
         ELSE [db |-> result.db, parked |-> 0]
    ELSE [db |-> db, parked |-> 0]

RECURSIVE NoReplyLoop(_, _, _)
NoReplyLoop(db, rows, count) ==
    IF rows = <<>> THEN [db |-> db, ret |-> count]
    ELSE LET step == NoReplyStep(db, Head(rows))
         IN  NoReplyLoop(step.db, Tail(rows), count + step.parked)

\* enforce_no_reply_revisit()
enforce_no_reply_revisit(db) == NoReplyLoop(db, NoReplyRows(db), 0)

RECURSIVE RecalcLoop(_, _, _)
RecalcLoop(db, rows, count) ==
    IF rows = <<>> THEN [db |-> db, ret |-> count]
    ELSE RecalcLoop(compute_confidence_score(db, Head(rows)).db, Tail(rows), count + 1)

\* batch_recalculate_confidence()
batch_recalculate_confidence(db) ==
    RecalcLoop(db, IdSeq({id \in DOMAIN db.contacts : db.contacts[id].account_status # "dnc"}), 0)

\* the sub-steps of run_account_maintenance, in the order it calls them
MaintenanceSteps ==
    <<"batch_recalculate_confidence", "enforce_revisit_expiry", "enforce_no_reply_revisit">>

\* what may go wrong in a maintenance run: nothing (""), or one sub-step
\* raising (sqlite3.OperationalError from its first statement, say) before it
\* has written anything
Faults == {""} \cup {MaintenanceSteps[i] : i \in DOMAIN MaintenanceSteps}

\* the call ended in an exception raised by step, after the sub-steps in ran
Raised(step, ran) == [raised |-> TRUE, step |-> step, ran |-> ran]

\* run_account_maintenance(): the three sub-steps are called one after the
\* other with no handler around them, so an exception in one ends the call
run_account_maintenance(db, fault) ==
    IF fault = MaintenanceSteps[1] THEN [db |-> db, ret |-> Raised(fault, {})]
    ELSE LET recalced == batch_recalculate_confidence(db) IN
    IF fault = MaintenanceSteps[2]
    THEN [db |-> recalced.db, ret |-> Raised(fault, {MaintenanceSteps[1]})]
    ELSE LET reactivated == enforce_revisit_expiry(recalced.db) IN
    IF fault = MaintenanceSteps[3]
    THEN [db |-> reactivated.db, ret |-> Raised(fault, {MaintenanceSteps[1], MaintenanceSteps[2]})]
    ELSE LET parked == enforce_no_reply_revisit(reactivated.db) IN
    [db  |-> parked.db,
     ret |-> [raised |-> FALSE,
              ran |-> {MaintenanceSteps[i] : i \in DOMAIN MaintenanceSteps},
              recalculated |-> recalced.ret,
              reactivated  |-> reactivated.ret,
              parked       |-> parked.ret]]

----------------------------------------------------------------------------
(* Integration hooks. *)

\* mutant: the hook returns when the contact is past cold
on_email_sent_OnlyWhenCold(db, contact_id) ==
    IF contact_id \notin DOMAIN db.contacts THEN db
    ELSE LET current == StatusOrCold(db.contacts[contact_id].account_status) IN
         IF current # "cold" THEN db
         ELSE LET moved  == transition_account_status(db, contact_id, "contacted").db
                  logged == InsertTouch(moved, contact_id, "email", "outbound", "Email sent")
              IN  UpdateContact(logged, contact_id, [last_touch_date |-> today])

\* on_email_sent(contact_id)
on_email_sent(db, contact_id) ==
    IF contact_id \notin DOMAIN db.contacts THEN db
    ELSE LET current == StatusOrCold(db.contacts[contact_id].account_status)
             moved   == IF current = "cold"
                        THEN transition_account_status(db, contact_id, "contacted").db
                        ELSE db
             logged  == InsertTouch(moved, contact_id, "email", "outbound", "Email sent")
         IN  UpdateContact(logged, contact_id, [last_touch_date |-> today])

\* mutant: every open is recorded in touch_log
on_email_opened_LogsOpen(db, contact_id) ==
    IF contact_id \notin DOMAIN db.contacts THEN db
    ELSE LET current == StatusOrCold(db.contacts[contact_id].account_status)
             moved   == IF current = "contacted"
                        THEN transition_account_status(db, contact_id, "engaged").db
                        ELSE db
         IN  InsertTouch(moved, contact_id, "email", "inbound", "Email opened")

\* on_email_opened(contact_id)
on_email_opened(db, contact_id) ==
    IF contact_id \notin DOMAIN db.contacts THEN db
    ELSE LET current == StatusOrCold(db.contacts[contact_id].account_status)
         IN  IF current = "contacted"
             THEN transition_account_status(db, contact_id, "engaged").db
             ELSE db

\* mutant: the negative-reply write is not guarded
NegativeReplyApplies_Always(current) == TRUE

\* the guard of the direct write of on_reply_received: current != "dnc"
NegativeReplyApplies(current) == current # "dnc"

\* mutant: the negative reply takes the no-reply timer
NegativeReplyUpdates_NoReplyTimer ==
    [account_status   |-> "revisit",
     next_action_date |-> today + revisit_no_reply_days,
     next_action      |-> "negative_reply_revisit",
     last_touch_date  |-> today]

\* the columns of the direct UPDATE of on_reply_received (negative sentiment)
NegativeReplyUpdates ==
    [account_status   |-> "revisit",
     next_action_date |-> today + revisit_negative_days,
     next_action      |-> "negative_reply_revisit",
     last_touch_date  |-> today]

\* mutant: a reply always asks for engaged
ReplyTarget_Engaged(current) == "engaged"

\* new = "engaged" if current == "contacted" else "contacted"
ReplyTarget(current) == IF current = "contacted" THEN "engaged" ELSE "contacted"

\* on_reply_received(contact_id, sentiment)
on_reply_received(db, contact_id, sentiment) ==
    IF contact_id \notin DOMAIN db.contacts THEN db
    ELSE LET current == StatusOrCold(db.contacts[contact_id].account_status)
             moved   ==
                 IF sentiment = "negative"
                 THEN IF NegativeReplyApplies(current)
                      THEN UpdateContact(db, contact_id, NegativeReplyUpdates)
                      ELSE db
                 ELSE IF current \in {"cold", "contacted"}
                      THEN transition_account_status(db, contact_id, ReplyTarget(current)).db
                      ELSE db
         IN  InsertTouch(moved, contact_id, "email", "inbound", "Reply received")

\* mutant: every contact that has not become a customer is parked
FollowupApplies_NotWon(current) == current \notin {"qualified", "partnered"}

\* current in ("cold", "contacted", "engaged") and current != "dnc"
FollowupApplies(current) == current \in {"cold", "contacted", "engaged"} /\ current # "dnc"

\* mutant: the parked contact is labelled as a validated revisit
FollowupUpdates_Expiry ==
    [account_status   |-> "revisit",
     next_action_date |-> today + revisit_no_reply_days,
     next_action      |-> "revisit_expiry",
     last_touch_date  |-> today]

\* mutant: the hook parks the contact and sets no date
FollowupUpdates_NoDate ==
    [account_status   |-> "revisit",
     next_action_date |-> EmptyDate,
     next_action      |-> "followup_exhausted",
     last_touch_date  |-> today]

\* the columns of the direct UPDATE of on_followup_exhausted
FollowupUpdates ==
    [account_status   |-> "revisit",
     next_action_date |-> today + revisit_no_reply_days,
     next_action      |-> "followup_exhausted",
     last_touch_date  |-> today]

\* on_followup_exhausted(contact_id)
on_followup_exhausted(db, contact_id) ==
    IF contact_id \notin DOMAIN db.contacts THEN db
    ELSE LET current == StatusOrCold(db.contacts[contact_id].account_status)
         IN  IF FollowupApplies(current)
             THEN UpdateContact(db, contact_id, FollowupUpdates)
             ELSE db

----------------------------------------------------------------------------
(* Email discovery (outreach_engine/email_discovery).                      *)
(*                                                                         *)
(* An address is the sequence of the pieces it is formatted from: the      *)
(* characters of the local part, "@", the domain.  A name is the sequence  *)
(* of its words (full_name.strip().split()), a word the sequence of its    *)
(* characters.                                                             *)

\* '' in an address column
NoAddress == <<>>

\* what validate_smtp returns: True (RCPT accepted), False (RCPT refused),
\* None (no verdict: timeout, connection error, rate limit)
Verdicts == {"True", "False", "None"}

\* the most candidates one call probes, and the positions among them at which
\* the mail server's answer may differ from its answer to the others
MaxCandidates == 16
SpecialUpTo == 3

\* the domain and the website of the model
Domain == "d.ca"
Website == "https://www.d.ca"

\* _extract_domain(website): the host of the URL without "www.", lower case
extract_domain(website) ==
    CASE website = ""      -> ""
      [] website = Website -> Domain

\* str.lower() on one character
Lower(c) ==
    CASE c = "A" -> "a"
      [] c = "B" -> "b"
      [] OTHER   -> c

\* does the character survive re.sub(r"[^a-z]", "", ...)
IsAlpha(c) == c \in {"a", "b"}

\* word.lower() then the removal of every character that is no letter
Clean(word) == SelectSeq([i \in 1..Len(word) |-> Lower(word[i])], IsAlpha)

\* _parse_name(full_name)
parse_name(full_name) ==
    IF full_name = <<>> THEN [first |-> <<>>, last |-> <<>>]
    ELSE [first |-> Head(full_name),
          last  |-> IF Len(full_name) > 1 THEN full_name[Len(full_name)] ELSE <<>>]

\* f"{local}@{domain}"
Address(local, domain) == local \o <<"@", domain>>

\* the list without the later copies of its elements
RECURSIVE Dedupe(_, _)
Dedupe(list, seen) ==
    IF list = <<>> THEN <<>>
    ELSE IF Head(list) \in seen THEN Dedupe(Tail(list), seen)
    ELSE <<Head(list)>> \o Dedupe(Tail(list), seen \cup {Head(list)})

\* generate_email_variations(first_name, last_name, domain, deep): the list
\* returned, or raised when first[0] is read of an empty first (a first name
\* with no letter, and a last name)
generate_email_variations(first_name, last_name, domain, deep) ==
    IF first_name = <<>> \/ domain = "" THEN [raised |-> FALSE, list |-> <<>>]
    ELSE LET \* first and last after lower() and re.sub
             given == Clean(first_name)
             surname  == Clean(last_name)
         IN  IF surname = <<>>
             THEN [raised |-> FALSE, list |-> <<Address(given, domain)>>]
             ELSE IF given = <<>>
             THEN [raised |-> TRUE, list |-> <<>>]
             ELSE [raised |-> FALSE,
                   list   |-> Dedupe(
                      <<Address(given, domain),
                        Address(given \o <<".">> \o surname, domain),
                        Address(given \o surname, domain),
                        Address(<<given[1]>> \o surname, domain),
                        Address(given \o <<surname[1]>>, domain),
                        Address(given \o <<"_">> \o surname, domain),
                        Address(surname, domain)>>
                      \o (IF deep
                          THEN <<Address(surname \o <<".">> \o given, domain),
                                 Address(surname \o given, domain),
                                 Address(surname \o <<given[1]>>, domain),
                                 Address(<<given[1], ".">> \o surname, domain),
                                 Address(given \o <<"-">> \o surname, domain),
                                 Address(surname \o <<"-">> \o given, domain),
                                 Address(given \o <<".", surname[1]>>, domain),
                                 Address(<<"info">>, domain),
                                 Address(<<"contact">>, domain),
                                 Address(<<"office">>, domain),
                                 Address(<<"hello">>, domain),
                                 Address(<<"admin">>, domain)>>
                          ELSE <<>>), {})]

\* validate_syntax(email): a non-empty local part, "@", a domain with a
\* top-level part
validate_syntax(email) ==
    /\ Len(email) >= 3
    /\ email[Len(email) - 1] = "@"
    /\ email[Len(email)] = Domain
    /\ \A i \in 1..(Len(email) - 2) : email[i] \notin {"@", " ", ""}

\* the address Hunter returns when it finds the person
HunterAddress == Address(<<"h">>, Domain)

\* the domains of the model
Domains == {Domain}

\* cfg.discovery_daily_cap and cfg.discovery_per_domain_per_hour
\* (config.py:68-69, defaults 200 and 3); the model keeps the order (the
\* daily cap is the larger) with small values
discovery_daily_cap == 3
discovery_per_domain_per_hour == 2

\* the mail server's answers to the RCPT probes of one call, by the position
\* of the candidate: one answer for the candidate at a chosen position,
\* another (or the same) for all the others
RcptAnswers ==
    {[i \in 1..MaxCandidates |-> IF i = k THEN u ELSE v] :
        k \in 1..SpecialUpTo, u \in Verdicts, v \in Verdicts}

\* the answers of the outside world:
\*   hunter    - Hunter's find_email: nothing usable ("none": no API key, not
\*               found, an exception), or an address scored below 90
\*               ("likely") or at least 90 ("verified")
\*   dns       - dns.resolver.resolve(domain, "MX"): MX records, no record
\*               (NoAnswer, NXDOMAIN), or dns.exception.Timeout
\*   scraped   - scrape_emails_from_website of a non-empty website
\*   google    - _google_search_email
\*   catch_all - the server's answer to the RCPT of the gibberish address of
\*               is_catch_all: 250, another code, or no answer (timeout,
\*               connection error)
\*   rcpt      - the same for the candidates
\* Where DNS gives no MX record the web and the mail server are never asked,
\* and where the website shows an address the search engine is not: there
\* one answer stands for all.
Nets ==
    {n \in [hunter    : {"none", "likely", "verified"},
            dns       : {"records"},
            scraped   : {<<>>, <<Address(<<"info">>, Domain)>>, <<Address(<<"a">>, Domain)>>},
            google    : {NoAddress, Address(<<"g">>, Domain)},
            catch_all : Verdicts,
            rcpt      : RcptAnswers] :
        n.scraped # <<>> => n.google = NoAddress}
    \cup
    [hunter    : {"none", "likely", "verified"},
     dns       : {"no_records", "timeout"},
     scraped   : {<<>>},
     google    : {NoAddress},
     catch_all : {"None"},
     rcpt      : {[i \in 1..MaxCandidates |-> "None"]}]

\* nothing answers
Offline ==
    [hunter |-> "none", dns |-> "timeout", scraped |-> <<>>, google |-> NoAddress,
     catch_all |-> "None", rcpt |-> [i \in 1..MaxCandidates |-> "None"]]

\* one external call and its result
Lookup(fn, arg, result) == [fn |-> fn, arg |-> arg, result |-> result]

\* what the probing functions read and write besides the contacts table,
\* threaded through one call: the email_discovery_log table, the two
\* lru_caches, the history of connections, and the lookups made so far
Run(calls) ==
    [email_discovery_log |-> email_discovery_log, lru |-> lru,
     connections |-> connections, calls |-> calls]

\* an lru_cache with no entry
NoCache == [d \in Domains |-> "miss"]

\* no probe logged, nothing cached, no connection made, at hour 0
NothingProbed ==
    /\ email_discovery_log = EmptyBag
    /\ lru = [validate_mx |-> NoCache, is_catch_all |-> NoCache]
    /\ hour = 0
    /\ connections = [hour |-> [d \in Domains |-> 0], day |-> 0]

\* created_at of a row inserted now (CURRENT_TIMESTAMP)
Now == [day |-> today, hour |-> hour]

\* the smtp_probe row of email_discovery_log for a probe of domain; detail
\* holds the address, the MX host and domain=<domain>, of which the rate
\* check reads the domain
ProbeRow(domain) == [step |-> "smtp_probe", detail |-> domain, created_at |-> Now]

\* SELECT COUNT(*) FROM email_discovery_log over the rows in the set rows
LogCount(log, rows) == BagCardinality([r \in rows |-> log[r]])

\* mutant: only the hourly cap of the domain is checked
check_discovery_rate_HourlyOnly(log, domain) ==
    LogCount(log, {r \in DOMAIN log :
                      /\ r.step = "smtp_probe"
                      /\ r.detail = domain
                      /\ r.created_at = Now}) < discovery_per_domain_per_hour

\* check_discovery_rate(domain) (queue_manager.py): DATE(created_at) = today
\* for the daily cap; detail LIKE %domain% within the last hour for the
\* hourly one (a row made an hour ago or earlier is outside the window)
check_discovery_rate(log, domain) ==
    LET daily  == LogCount(log, {r \in DOMAIN log :
                                    r.step = "smtp_probe" /\ r.created_at.day = today})
        hourly == LogCount(log, {r \in DOMAIN log :
                                    /\ r.step = "smtp_probe"
                                    /\ r.detail = domain
                                    /\ r.created_at = Now})
    IN  IF daily >= discovery_daily_cap THEN FALSE
        ELSE hourly < discovery_per_domain_per_hour

\* validate_smtp(email, mx_host) when the server's answer to the RCPT is
\* answer.  writer_open: the caller holds a write transaction open on its own
\* connection, so the INSERT of the smtp_probe row on the second connection
\* fails with "database is locked" after its 5 s timeout and is passed over
\* (email_discovery.py:100-109).  The entry of calls tells whether a
\* connection was opened to the server and what was returned.
validate_smtp(run, email, answer, writer_open) ==
    LET domain == email[Len(email)]
    IN  IF ~check_discovery_rate(run.email_discovery_log, domain)
        THEN [run    |-> [run EXCEPT !.calls = Append(@,
                             Lookup("validate_smtp", email,
                                    [connected |-> FALSE, verdict |-> "None"]))],
              result |-> "None"]
        ELSE [run    |-> [run EXCEPT
                             !.connections.hour[domain] = Min(@ + 1, MaxConnections),
                             !.connections.day = Min(@ + 1, MaxConnections),
                             !.email_discovery_log =
                                 IF answer # "None" /\ ~writer_open
                                 THEN @ (+) SetToBag({ProbeRow(domain)})
                                 ELSE @,
                             !.calls = Append(@,
                                 Lookup("validate_smtp", email,
                                        [connected |-> TRUE, verdict |-> answer]))],
              result |-> answer]

\* mutant: every domain is taken to have a mail exchanger
validate_mx_AlwaysMx(run, domain) ==
    [run    |-> [run EXCEPT
                    !.lru.validate_mx[domain] = "True",
                    !.calls = Append(@,
                        Lookup("validate_mx", domain,
                               [cached |-> run.lru.validate_mx[domain] # "miss",
                                has_mx |-> TRUE]))],
     has_mx |-> TRUE]

\* validate_mx(domain): the cached pair, or the DNS query and its caching; a
\* timeout and every other exception give (False, "")
validate_mx(run, domain) ==
    IF run.lru.validate_mx[domain] # "miss"
    THEN [run    |-> [run EXCEPT !.calls = Append(@,
                         Lookup("validate_mx", domain,
                                [cached |-> TRUE, has_mx |-> run.lru.validate_mx[domain] = "True"]))],
          has_mx |-> run.lru.validate_mx[domain] = "True"]
    ELSE LET has_mx == net.dns = "records"
         IN  [run    |-> [run EXCEPT
                             !.lru.validate_mx[domain] = IF has_mx THEN "True" ELSE "False",
                             !.calls = Append(@,
                                 Lookup("validate_mx", domain,
                                        [cached |-> FALSE, has_mx |-> has_mx]))],
              has_mx |-> has_mx]

\* the address is_catch_all probes
Gibberish(domain) == Address(<<"zxqj7k9m3wplv">>, domain)

\* is_catch_all(domain): the cached answer, or the probe of the gibberish
\* address and the caching of "result is True"
is_catch_all(run, domain, writer_open) ==
    IF run.lru.is_catch_all[domain] # "miss"
    THEN [run       |-> [run EXCEPT !.calls = Append(@,
                            Lookup("is_catch_all", domain,
                                   [cached |-> TRUE,
                                    catch_all |-> run.lru.is_catch_all[domain] = "True"]))],
          catch_all |-> run.lru.is_catch_all[domain] = "True"]
    ELSE LET mx    == validate_mx(run, domain)
             probe == validate_smtp(mx.run, Gibberish(domain), net.catch_all, writer_open)
             after == IF mx.has_mx THEN probe.run ELSE mx.run
             catch_all == mx.has_mx /\ probe.result = "True"
         IN  [run       |-> [after EXCEPT
                                !.lru.is_catch_all[domain] = IF catch_all THEN "True" ELSE "False",
                                !.calls = Append(@,
                                    Lookup("is_catch_all", domain,
                                           [cached |-> FALSE, catch_all |-> catch_all]))],
              catch_all |-> catch_all]

\* what discover_email and rediscover_email hand back: the database as
\* committed, what the probing functions left behind, and the pair returned
\* with the lookups made, in order
Discovered(db, run, email, status) ==
    [db  |-> db,
     run |-> run,
     ret |-> [raised |-> FALSE, email |-> email, status |-> status, calls |-> run.calls]]

\* the same when the call ends in an exception: nothing is committed
Raises(db, run, error) ==
    [db  |-> db,
     run |-> run,
     ret |-> [raised |-> TRUE, error |-> error, calls |-> run.calls]]

\* scrape_emails_from_website(website, deep); the further pages a deep scrape
\* fetches hold no further address in the model
scrape_emails_from_website(website, deep) ==
    IF website = "" THEN <<>> ELSE net.scraped

\* is the Hunter lookup made and does it find an address (steps 2a)
HunterFinds(contact, domain) ==
    /\ net.hunter # "none"
    /\ domain # ""
    /\ contact.tier = "A"
    /\ parse_name(contact.contact_name).first # <<>>
    /\ parse_name(contact.contact_name).last # <<>>

\* mutant: an accepted candidate is verified whatever the catch-all answer
RECURSIVE ProbeLoop_TrustsAccept(_, _, _, _, _, _, _)
ProbeLoop_TrustsAccept(all_candidates, i, catch_all, best_email, best_status, run, writer_open) ==
    IF i > Len(all_candidates)
    THEN [best_email |-> best_email, best_status |-> best_status, run |-> run]
    ELSE LET email == all_candidates[i] IN
         IF ~validate_syntax(email)
         THEN ProbeLoop_TrustsAccept(all_candidates, i + 1, catch_all, best_email,
                                     best_status, run, writer_open)
         ELSE LET probe == validate_smtp(run, email, net.rcpt[i], writer_open)
              IN  IF probe.result = "True"
                  THEN [best_email |-> email, best_status |-> "verified", run |-> probe.run]
                  ELSE IF probe.result = "None" /\ best_email = NoAddress
                  THEN ProbeLoop_TrustsAccept(all_candidates, i + 1, catch_all, email,
                                              "likely", probe.run, writer_open)
                  ELSE ProbeLoop_TrustsAccept(all_candidates, i + 1, catch_all, best_email,
                                              best_status, probe.run, writer_open)

\* mutant: on a catch-all domain an accepted candidate is kept and the
\* candidates after it are probed as well
RECURSIVE ProbeLoop_ProbesOn(_, _, _, _, _, _, _)
ProbeLoop_ProbesOn(all_candidates, i, catch_all, best_email, best_status, run, writer_open) ==
    IF i > Len(all_candidates)
    THEN [best_email |-> best_email, best_status |-> best_status, run |-> run]
    ELSE LET email == all_candidates[i] IN
         IF ~validate_syntax(email)
         THEN ProbeLoop_ProbesOn(all_candidates, i + 1, catch_all, best_email,
                                 best_status, run, writer_open)
         ELSE LET probe == validate_smtp(run, email, net.rcpt[i], writer_open)
              IN  IF probe.result = "True" /\ ~catch_all
                  THEN [best_email |-> email, best_status |-> "verified", run |-> probe.run]
                  ELSE IF (probe.result = "True" /\ catch_all)
                          \/ (probe.result = "None" /\ best_email = NoAddress)
                  THEN ProbeLoop_ProbesOn(all_candidates, i + 1, catch_all, email,
                                          "likely", probe.run, writer_open)
                  ELSE ProbeLoop_ProbesOn(all_candidates, i + 1, catch_all, best_email,
                                          best_status, probe.run, writer_open)

\* mutant: the candidate kept after probes with no verdict is the last of
\* them, not the first
RECURSIVE ProbeLoop_KeepsLast(_, _, _, _, _, _, _)
ProbeLoop_KeepsLast(all_candidates, i, catch_all, best_email, best_status, run, writer_open) ==
    IF i > Len(all_candidates)
    THEN [best_email |-> best_email, best_status |-> best_status, run |-> run]
    ELSE LET email == all_candidates[i] IN
         IF ~validate_syntax(email)
         THEN ProbeLoop_KeepsLast(all_candidates, i + 1, catch_all, best_email,
                                  best_status, run, writer_open)
         ELSE LET probe == validate_smtp(run, email, net.rcpt[i], writer_open)
              IN  IF probe.result = "True" /\ ~catch_all
                  THEN [best_email |-> email, best_status |-> "verified", run |-> probe.run]
                  ELSE IF probe.result = "True" /\ catch_all
                  THEN [best_email |-> email, best_status |-> "likely", run |-> probe.run]
                  ELSE IF probe.result = "None"
                  THEN ProbeLoop_KeepsLast(all_candidates, i + 1, catch_all, email,
                                           "likely", probe.run, writer_open)
                  ELSE ProbeLoop_KeepsLast(all_candidates, i + 1, catch_all, best_email,
                                           best_status, probe.run, writer_open)

\* the SMTP probing loop over all_candidates from position i, as written in
\* discover_email, in rediscover_email (email_discovery.py:796-812) and in
\* discover_team_emails (:430-443)
RECURSIVE ProbeLoop(_, _, _, _, _, _, _)
ProbeLoop(all_candidates, i, catch_all, best_email, best_status, run, writer_open) ==
    IF i > Len(all_candidates)
    THEN [best_email |-> best_email, best_status |-> best_status, run |-> run]
    ELSE LET email == all_candidates[i] IN
         IF ~validate_syntax(email)
         THEN ProbeLoop(all_candidates, i + 1, catch_all, best_email, best_status,
                        run, writer_open)
         ELSE LET probe == validate_smtp(run, email, net.rcpt[i], writer_open)
              IN  IF probe.result = "True" /\ ~catch_all
                  THEN [best_email |-> email, best_status |-> "verified", run |-> probe.run]
                  ELSE IF probe.result = "True" /\ catch_all
                  THEN [best_email |-> email, best_status |-> "likely", run |-> probe.run]
                  ELSE IF probe.result = "None" /\ best_email = NoAddress
                  THEN ProbeLoop(all_candidates, i + 1, catch_all, email, "likely",
                                 probe.run, writer_open)
                  ELSE ProbeLoop(all_candidates, i + 1, catch_all, best_email, best_status,
                                 probe.run, writer_open)

\* steps 3 to 5 of discover_email, for a contact whose domain has an MX
\* record; domain_update is the UPDATE of the domain column not yet
\* committed.  The INSERT of _log_discovery at line 626 has opened the write
\* transaction of conn, which stays open until the commit at the end.
DiscoverFromCandidates(db, run, contact_id, contact, domain, domain_update) ==
    LET found    == scrape_emails_from_website(contact.website, FALSE)
        searched == found = <<>>
        scraped  == IF searched /\ net.google # NoAddress THEN <<net.google>> ELSE found
        run3     == [run EXCEPT !.calls =
                        Append(@, Lookup("scrape_emails_from_website", contact.website, found))
                        \o (IF searched
                            THEN <<Lookup("_google_search_email", domain, net.google)>>
                            ELSE <<>>)]
        name     == parse_name(contact.contact_name)
        patterns == IF name.first # <<>>
                    THEN generate_email_variations(name.first, name.last, domain, FALSE)
                    ELSE [raised |-> FALSE, list |-> <<>>]
        NotScraped(p) == \A j \in DOMAIN scraped : scraped[j] # p
        all_candidates == scraped \o SelectSeq(patterns.list, NotScraped)
    IN  IF patterns.raised
        THEN Raises(db, run3, "IndexError")
        ELSE IF all_candidates = <<>>
        THEN Discovered(UpdateContact(db, contact_id,
                                      [email_status |-> "needs_manual"] @@ domain_update),
                        run3, NoAddress, "needs_manual")
        ELSE LET step5 == is_catch_all(run3, domain, TRUE)
                 loop  == ProbeLoop(all_candidates, 1, step5.catch_all, NoAddress, "unknown",
                                    step5.run, TRUE)
             IN  IF loop.best_email # NoAddress
                 THEN Discovered(UpdateContact(db, contact_id,
                                    [discovered_email |-> loop.best_email,
                                     email_status |-> loop.best_status] @@ domain_update),
                                 loop.run, loop.best_email, loop.best_status)
                 ELSE IF scraped # <<>>
                 THEN Discovered(UpdateContact(db, contact_id,
                                    [discovered_email |-> scraped[1],
                                     email_status |-> "likely"] @@ domain_update),
                                 loop.run, scraped[1], "likely")
                 ELSE Discovered(UpdateContact(db, contact_id,
                                    [email_status |-> "needs_manual"] @@ domain_update),
                                 loop.run, NoAddress, "needs_manual")

\* mutant: only a verified address ends the call at step 1
AlreadyHasEmail_VerifiedOnly(contact) ==
    /\ contact.discovered_email # NoAddress
    /\ contact.email_status = "verified"

\* step 1 of discover_email: the contact already has an email
AlreadyHasEmail(contact) ==
    /\ contact.discovered_email # NoAddress
    /\ contact.email_status \in {"verified", "likely"}

\* discover_email(contact_id)
discover_email(db, run, contact_id) ==
    IF contact_id \notin DOMAIN db.contacts
    THEN Discovered(db, run, NoAddress, "unknown")
    ELSE LET contact == db.contacts[contact_id]
             domain  == IF contact.domain # "" THEN contact.domain
                        ELSE extract_domain(contact.website)
             domain_update == IF domain # "" /\ contact.domain = ""
                              THEN [domain |-> domain] ELSE <<>>
         IN  IF AlreadyHasEmail(contact)
             THEN \* conn.close() with no commit: the domain UPDATE is dropped
                  Discovered(db, run, contact.discovered_email, contact.email_status)
             ELSE IF HunterFinds(contact, domain)
             THEN Discovered(UpdateContact(db, contact_id,
                                [discovered_email |-> HunterAddress,
                                 email_status |-> net.hunter] @@ domain_update),
                             [run EXCEPT !.calls =
                                 Append(@, Lookup("hunter_find", domain, net.hunter))],
                             HunterAddress, net.hunter)
             ELSE IF domain = ""
             THEN Discovered(UpdateContact(db, contact_id, [email_status |-> "needs_manual"]),
                             run, NoAddress, "needs_manual")
             ELSE LET step2 == validate_mx(run, domain) IN
                  IF ~step2.has_mx
                  THEN Discovered(UpdateContact(db, contact_id,
                                     [email_status |-> "invalid"] @@ domain_update),
                                  step2.run, NoAddress, "invalid")
                  ELSE DiscoverFromCandidates(db, step2.run, contact_id, contact, domain,
                                              domain_update)

\* the number of characters of a piece of a local part
Width(piece) ==
    CASE piece = "info"    -> 4
      [] piece = "contact" -> 7
      [] piece = "office"  -> 6
      [] piece = "hello"   -> 5
      [] piece = "admin"   -> 5
      [] piece = "zxqj7k9m3wplv" -> 13
      [] OTHER             -> 1

\* len(local)
RECURSIVE LocalLen(_)
LocalLen(local) == IF local = <<>> THEN 0 ELSE Width(Head(local)) + LocalLen(Tail(local))

\* does the piece match [a-z]+
IsLetters(piece) ==
    piece \in {"a", "b", "g", "h", "n", "info", "contact", "office", "hello", "admin"}

\* does local match ^[a-z]+<sep>[a-z]+$
Joined(local, sep) ==
    \E k \in 2..(Len(local) - 1) :
        /\ local[k] = sep
        /\ \A j \in DOMAIN local : j # k => IsLetters(local[j])

\* _pattern_score(email)
pattern_score(email) ==
    LET local   == SubSeq(email, 1, Len(email) - 2)
        letters == local # <<>> /\ \A j \in DOMAIN local : IsLetters(local[j])
    IN  IF letters /\ LocalLen(local) <= 15 THEN 100
        ELSE IF Joined(local, ".") THEN 80
        ELSE IF letters /\ LocalLen(local) > 4 THEN 60
        ELSE IF Joined(local, "_") THEN 50
        ELSE IF local \in {<<"info">>, <<"contact">>, <<"office">>, <<"hello">>,
                           <<"admin">>, <<"general">>} THEN 30
        ELSE 10

\* sorted(candidates, key=_pattern_score, reverse=True)[0]: the first of the
\* candidates with the highest score (the sort is stable)
BestByPattern(candidates) ==
    LET at == CHOOSE j \in DOMAIN candidates :
                 /\ \A k \in DOMAIN candidates :
                       pattern_score(candidates[k]) <= pattern_score(candidates[j])
                 /\ \A k \in 1..(j - 1) :
                       pattern_score(candidates[k]) < pattern_score(candidates[j])
    IN  candidates[at]

\* mutant: only the first recorded bounce is excluded
BouncedSet_FirstOnly(bounced_emails) ==
    IF bounced_emails = <<>> THEN {} ELSE {bounced_emails[1]} \ {NoAddress}

\* contact["bounced_emails"] split at the commas, the empty entries dropped
BouncedSet(bounced_emails) ==
    {bounced_emails[j] : j \in DOMAIN bounced_emails} \ {NoAddress}

\* UPDATE contacts SET email_status = 'exhausted' and return ('', exhausted)
Exhausted(db, run, contact_id) ==
    Discovered(UpdateContact(db, contact_id, [email_status |-> "exhausted"]),
               run, NoAddress, "exhausted")

\* rediscover_email(contact_id).  The INSERT of _log_discovery at line 768 has
\* opened the write transaction of conn before the first probe.
rediscover_email(db, run, contact_id) ==
    IF contact_id \notin DOMAIN db.contacts
    THEN Discovered(db, run, NoAddress, "unknown")
    ELSE LET contact == db.contacts[contact_id]
             domain  == IF contact.domain # "" THEN contact.domain
                        ELSE extract_domain(contact.website)
             bounced_set == BouncedSet(contact.bounced_emails)
         IN  IF domain = "" THEN Exhausted(db, run, contact_id)
             ELSE LET mx == validate_mx(run, domain) IN
             IF ~mx.has_mx THEN Exhausted(db, mx.run, contact_id)
             ELSE LET scraped  == scrape_emails_from_website(contact.website, TRUE)
                      run2     == [mx.run EXCEPT !.calls =
                                      Append(@, Lookup("scrape_emails_from_website",
                                                       contact.website, scraped))]
                      name     == parse_name(contact.contact_name)
                      patterns == IF name.first # <<>>
                                  THEN generate_email_variations(name.first, name.last,
                                                                 domain, TRUE)
                                  ELSE [raised |-> FALSE, list |-> <<>>]
                      NotScraped(p) == \A j \in DOMAIN scraped : scraped[j] # p
                      NotBounced(e) == e \notin bounced_set
                      all_candidates ==
                          SelectSeq(scraped \o SelectSeq(patterns.list, NotScraped), NotBounced)
                  IN  IF patterns.raised THEN Raises(db, run2, "IndexError")
                      ELSE IF all_candidates = <<>> THEN Exhausted(db, run2, contact_id)
                      ELSE LET probing == is_catch_all(run2, domain, TRUE)
                               loop == ProbeLoop(all_candidates, 1, probing.catch_all,
                                                 NoAddress, "unknown", probing.run, TRUE)
                               best_email  == IF loop.best_email = NoAddress
                                              THEN BestByPattern(all_candidates)
                                              ELSE loop.best_email
                               best_status == IF loop.best_email = NoAddress
                                              THEN "likely" ELSE loop.best_status
                           IN  IF best_email # NoAddress
                               THEN Discovered(
                                       UpdateContact(db, contact_id,
                                          [discovered_email |-> best_email,
                                           email_status |-> best_status,
                                           outreach_status |-> "pending"]),
                                       loop.run, best_email, best_status)
                               ELSE Discovered(
                                       UpdateContact(db, contact_id,
                                                     [email_status |-> "exhausted"]),
                                       loop.run, best_email, best_status)

\* what discover_team_emails hands back: the list of people with an address
\* (or the exception) and what the probing functions left behind
Team(run, results) ==
    [run |-> run, ret |-> [raised |-> FALSE, results |-> results, calls |-> run.calls]]

\* the loop of discover_team_emails over the members from position k
RECURSIVE TeamLoop(_, _, _, _, _, _, _)
TeamLoop(members, k, catch_all, exclude, domain, run, results) ==
    IF k > Len(members) THEN Team(run, results)
    ELSE LET member == members[k]
             name   == parse_name(member.name)
         IN  IF name.first = <<>> \/ name.last = <<>>
             THEN TeamLoop(members, k + 1, catch_all, exclude, domain, run, results)
             ELSE IF member.email # NoAddress /\ member.email \notin exclude
             THEN TeamLoop(members, k + 1, catch_all, exclude, domain, run,
                           Append(results,
                                  [name |-> member.name, email |-> member.email,
                                   email_status |-> IF ~catch_all THEN "verified" ELSE "likely"]))
             ELSE LET generated == generate_email_variations(name.first, name.last, domain, FALSE)
                      NotExcluded(e) == e \notin exclude
                      patterns == SelectSeq(generated.list, NotExcluded)
                      loop == ProbeLoop(patterns, 1, catch_all, NoAddress, "unknown", run, FALSE)
                      best_email  == IF loop.best_email = NoAddress /\ patterns # <<>>
                                     THEN BestByPattern(patterns) ELSE loop.best_email
                      best_status == IF loop.best_email = NoAddress /\ patterns # <<>>
                                     THEN "likely" ELSE loop.best_status
                  IN  IF generated.raised
                      THEN [run |-> run,
                            ret |-> [raised |-> TRUE, error |-> "IndexError", calls |-> run.calls]]
                      ELSE TeamLoop(members, k + 1, catch_all, exclude, domain, loop.run,
                                    IF best_email # NoAddress
                                    THEN Append(results,
                                                [name |-> member.name, email |-> best_email,
                                                 email_status |-> best_status])
                                    ELSE results)

\* discover_team_emails(website, domain, city, exclude_emails) when
\* scrape_team_members(website) finds members.  Its callers hold no write
\* transaction (flywheel.py:124-155, sidecar.py:611-632), so the smtp_probe
\* rows of its probes are inserted.
discover_team_emails(run, website, domain, exclude_emails, members) ==
    IF members = <<>> THEN Team(run, <<>>)
    ELSE LET mx == validate_mx(run, domain) IN
         IF ~mx.has_mx THEN Team(mx.run, <<>>)
         ELSE LET probing == is_catch_all(mx.run, domain, FALSE)
              IN  TeamLoop(members, 1, probing.catch_all, exclude_emails, domain,
                           probing.run, <<>>)

\* what discover_batch hands back: what the calls of discover_email have
\* committed, and the list of results, or the exception that ended the loop
\* with the results gathered until then
Batch(db, run, raised, results) ==
    [db |-> db, run |-> run,
     ret |-> [raised |-> raised, results |-> results, calls |-> run.calls]]

\* the loop of discover_batch over the selected rows from position k; each
\* discover_email commits by itself, and nothing catches what it raises
RECURSIVE DiscoverBatchLoop(_, _, _, _, _)
DiscoverBatchLoop(db, run, rows, k, results) ==
    IF k > Len(rows) THEN Batch(db, run, FALSE, results)
    ELSE LET one == discover_email(db, run, rows[k])
         IN  IF one.ret.raised
             THEN Batch(one.db, one.run, TRUE, results)
             ELSE DiscoverBatchLoop(one.db, one.run, rows, k + 1,
                                    Append(results,
                                           [contact_id |-> rows[k],
                                            email      |-> one.ret.email,
                                            status     |-> one.ret.status]))

\* discover_batch(limit): the pending contacts with a domain, in id order
\* (priority_score, equal for all contacts of the model, is left out)
discover_batch(db, run, limit) ==
    LET selected == IdSeq({id \in DOMAIN db.contacts :
                              /\ db.contacts[id].email_status = "pending"
                              /\ db.contacts[id].domain # ""})
        rows     == SubSeq(selected, 1, Min(limit, Len(selected)))
    IN  DiscoverBatchLoop(db, run, rows, 1, <<>>)

\* mark_bounced(bundle_id) for a bundle of contact contact_id: the address
\* that bounced joins bounced_emails unless it is there already; the
\* outreach_bundles row, which nothing else in the model reads, is left out
mark_bounced(db, contact_id) ==
    IF contact_id \notin DOMAIN db.contacts
    THEN [db |-> db, ret |-> [contact_id |-> 0, bounced_email |-> NoAddress]]
    ELSE LET row == db.contacts[contact_id]
             bounced_email == row.discovered_email
             bounced_list  == IF bounced_email # NoAddress
                                 /\ bounced_email \notin BouncedSet(row.bounced_emails)
                              THEN Append(row.bounced_emails, bounced_email)
                              ELSE row.bounced_emails
         IN  [db  |-> UpdateContact(db, contact_id,
                         [email_status    |-> "bounced",
                          bounce_count    |-> row.bounce_count + 1,
                          bounced_emails  |-> bounced_list,
                          outreach_status |-> "pending"]),
              ret |-> [contact_id |-> contact_id, bounced_email |-> bounced_email]]

\* the WHERE clause of select_next_batch; bundles stands for the contact's
\* rows of outreach_bundles, as the set of their statuses
Selectable(row) ==
    /\ row.outreach_status = "pending"
    /\ row.email_status \in {"verified", "likely"}
    /\ row.discovered_email # NoAddress
    /\ row.account_status # "dnc"
    /\ row.bundles \subseteq {"skipped", "bounced"}

\* ORDER BY priority_score DESC, id ASC over the ids in S
RECURSIVE QueueOrder(_, _)
QueueOrder(db, S) ==
    IF S = {} THEN <<>>
    ELSE LET m == CHOOSE x \in S : \A y \in S :
                      \/ db.contacts[x].priority_score > db.contacts[y].priority_score
                      \/ /\ db.contacts[x].priority_score = db.contacts[y].priority_score
                         /\ x <= y
         IN  <<m>> \o QueueOrder(db, S \ {m})

\* the loop of select_next_batch over the rows from position k: a row whose
\* domain was seen is passed over, any other is appended, and the length is
\* compared with batch_size after the append
RECURSIVE SelectLoop(_, _, _, _, _, _)
SelectLoop(db, rows, k, seen_domains, selected, batch_size) ==
    IF k > Len(rows) THEN selected
    ELSE LET domain == db.contacts[rows[k]].domain
         IN  IF domain # "" /\ domain \in seen_domains
             THEN SelectLoop(db, rows, k + 1, seen_domains, selected, batch_size)
             ELSE LET seen == IF domain # "" THEN seen_domains \cup {domain}
                              ELSE seen_domains
                      sel  == Append(selected, rows[k])
                  IN  IF Len(sel) >= batch_size THEN sel
                      ELSE SelectLoop(db, rows, k + 1, seen, sel, batch_size)

select_next_batch(db, batch_size) ==
    LET rows == QueueOrder(db, {id \in DOMAIN db.contacts : Selectable(db.contacts[id])})
    IN  SelectLoop(db, rows, 1, {}, <<>>, batch_size)

----------------------------------------------------------------------------
(* State machine. *)

\* a freshly imported contact: the column defaults of the contacts table
\* (sidecar.py:88-100) and account_status 'cold'; the other columns are the
\* ones the scorer reads, with the three subquery columns of its SELECT
NewContact(profile) ==
    [account_status   |-> "cold",
     last_touch_date  |-> EmptyDate,
     next_action_date |-> EmptyDate,
     next_action      |-> "",
     confidence_score |-> 0] @@ profile

\* the scored columns an imported contact may carry
Profiles ==
    {[email_status |-> "verified", decision_maker_found |-> 0, contact_name |-> "n",
      title_role |-> "t", website |-> "w", phone |-> "p", tier |-> "A",
      signal_count |-> 1, has_opens |-> 1, last_sent |-> 1]}

\* the call recorded in last: function, contact id (0 for a batch job),
\* status or sentiment argument, and the value returned
Call(op, contact_id, arg, ret) ==
    [op |-> op, contact_id |-> contact_id, arg |-> arg, ret |-> ret]

None == [none |-> TRUE]

\* touch_log grows without bound in the program; the model stops at MaxTouch
\* rows per contact
Bounded(db) ==
    \A id \in DOMAIN db.contacts :
        TouchCount(db.touch_log, TouchesOf(db.touch_log, id)) <= MaxTouch

\* a worker process making one call, one SQL statement per step
Workers == {"w1", "w2"}

\* a worker that has not begun its call
Idle ==
    [op |-> "", pc |-> "idle", contact_id |-> AbsentId, target |-> "",
     current |-> "", score |-> 0, rows |-> <<>>]

Commit(db) ==
    /\ Bounded(db)
    /\ contacts' = db.contacts
    /\ touch_log' = db.touch_log
    /\ UNCHANGED <<today, workers, cfg, net, email_discovery_log, lru, hour, connections>>

Init ==
    /\ contacts \in [ContactIds -> {NewContact(p) : p \in Profiles}]
    /\ touch_log = EmptyBag
    /\ today = 1
    /\ last = Call("", 0, "", None)
    /\ workers = [w \in Workers |-> Idle]
    /\ cfg = [confidence_weights |-> confidence_weights]
    /\ net = Offline
    /\ NothingProbed

TransitionAccountStatus(contact_id, new_status) ==
    LET result == transition_account_status(Db, contact_id, new_status)
    IN  /\ Commit(result.db)
        /\ last' = Call("transition_account_status", contact_id, new_status, result.ret)

MarkDnc(contact_id) ==
    LET result == mark_dnc(Db, contact_id)
    IN  /\ Commit(result.db)
        /\ last' = Call("mark_dnc", contact_id, "", result.ret)

ComputeConfidenceScore(contact_id) ==
    LET result == compute_confidence_score(Db, contact_id)
    IN  /\ Commit(result.db)
        /\ last' = Call("compute_confidence_score", contact_id, "", [score |-> result.ret])

BatchRecalculateConfidence ==
    LET result == batch_recalculate_confidence(Db)
    IN  /\ Commit(result.db)
        /\ last' = Call("batch_recalculate_confidence", 0, "", [count |-> result.ret])

EnforceRevisitExpiry ==
    LET result == enforce_revisit_expiry(Db)
    IN  /\ Commit(result.db)
        /\ last' = Call("enforce_revisit_expiry", 0, "", [count |-> result.ret])

EnforceNoReplyRevisit ==
    LET result == enforce_no_reply_revisit(Db)
    IN  /\ Commit(result.db)
        /\ last' = Call("enforce_no_reply_revisit", 0, "", [count |-> result.ret])

RunAccountMaintenance(fault) ==
    LET result == run_account_maintenance(Db, fault)
    IN  /\ Commit(result.db)
        /\ last' = Call("run_account_maintenance", 0, fault, result.ret)

OnEmailSent(contact_id) ==
    /\ Commit(on_email_sent(Db, contact_id))
    /\ last' = Call("on_email_sent", contact_id, "", None)

OnEmailOpened(contact_id) ==
    /\ Commit(on_email_opened(Db, contact_id))
    /\ last' = Call("on_email_opened", contact_id, "", None)

OnReplyReceived(contact_id, sentiment) ==
    /\ Commit(on_reply_received(Db, contact_id, sentiment))
    /\ last' = Call("on_reply_received", contact_id, sentiment, None)

OnFollowupExhausted(contact_id) ==
    /\ Commit(on_followup_exhausted(Db, contact_id))
    /\ last' = Call("on_followup_exhausted", contact_id, "", None)

\* the end of a call of the discovery functions: the contacts table as
\* committed, the rows the probes logged, the caches and the connections
CommitDiscovery(result) ==
    /\ contacts' = result.db.contacts
    /\ email_discovery_log' = result.run.email_discovery_log
    /\ lru' = result.run.lru
    /\ connections' = result.run.connections
    /\ UNCHANGED <<touch_log, today, workers, cfg, net, hour>>

DiscoverEmail(contact_id) ==
    LET result == discover_email(Db, Run(<<>>), contact_id)
    IN  /\ CommitDiscovery(result)
        /\ last' = Call("discover_email", contact_id, "", result.ret)

RediscoverEmail(contact_id) ==
    LET result == rediscover_email(Db, Run(<<>>), contact_id)
    IN  /\ CommitDiscovery(result)
        /\ last' = Call("rediscover_email", contact_id, "", result.ret)

\* the bulk discovery; last records the LIMIT beside the value returned
DiscoverBatch(limit) ==
    LET result == discover_batch(Db, Run(<<>>), limit)
    IN  /\ CommitDiscovery(result)
        /\ last' = Call("discover_batch", 0, "", [limit |-> limit] @@ result.ret)

\* a bundle of the contact is reported as bounced
MarkBounced(contact_id) ==
    /\ contact_id \in DOMAIN contacts
    /\ contacts[contact_id].bounce_count < MaxBounces
    /\ LET result == mark_bounced(Db, contact_id)
       IN  /\ Commit(result.db)
           /\ last' = Call("mark_bounced", contact_id, "", result.ret)

\* the selection of the next batch reads the tables and writes nothing; last
\* records batch_size beside the list returned
SelectNextBatch(batch_size) ==
    /\ last' = Call("select_next_batch", 0, "",
                    [batch_size |-> batch_size,
                     selected   |-> select_next_batch(Db, batch_size)])
    /\ UNCHANGED <<contacts, touch_log, today, workers, cfg, net,
                   email_discovery_log, lru, hour, connections>>

\* the team pages of a website, as scrape_team_members reads them: nobody,
\* or one person with no address shown
TeamPages == {<<>>, <<[name |-> <<<<"a">>, <<"b">>>>, email |-> NoAddress]>>}

\* the team scrape of the bounce recovery and of the flywheel, for a contact
\* with a website and a domain
DiscoverTeamEmails(contact_id, members) ==
    /\ contact_id \in DOMAIN contacts
    /\ contacts[contact_id].website # ""
    /\ contacts[contact_id].domain # ""
    /\ LET result == discover_team_emails(Run(<<>>), contacts[contact_id].website,
                                          contacts[contact_id].domain,
                                          BouncedSet(contacts[contact_id].bounced_emails),
                                          members)
       IN  /\ email_discovery_log' = result.run.email_discovery_log
           /\ lru' = result.run.lru
           /\ connections' = result.run.connections
           /\ last' = Call("discover_team_emails", contact_id, "", result.ret)
    /\ UNCHANGED <<contacts, touch_log, today, workers, cfg, net, hour>>

\* midnight: date.today() moves on
Tick ==
    /\ today < MaxDay
    /\ today' = today + 1
    /\ hour' = 0
    /\ connections' = [hour |-> [d \in Domains |-> 0], day |-> 0]
    /\ last' = Call("", 0, "", None)
    /\ UNCHANGED <<contacts, touch_log, workers, cfg, net, email_discovery_log, lru>>

\* the next hour of the day begins
NextHour ==
    /\ hour < HoursPerDay - 1
    /\ hour' = hour + 1
    /\ connections' = [connections EXCEPT !.hour = [d \in Domains |-> 0]]
    /\ last' = Call("", 0, "", None)
    /\ UNCHANGED <<contacts, touch_log, today, workers, cfg, net, email_discovery_log, lru>>

Next ==
    \/ \E id \in CallIds, new_status \in Targets : TransitionAccountStatus(id, new_status)
    \/ \E id \in CallIds : MarkDnc(id)
    \/ \E id \in CallIds : ComputeConfidenceScore(id)
    \/ BatchRecalculateConfidence
    \/ EnforceRevisitExpiry
    \/ EnforceNoReplyRevisit
    \/ \E fault \in Faults : RunAccountMaintenance(fault)
    \/ \E id \in CallIds : OnEmailSent(id)
    \/ \E id \in CallIds : OnEmailOpened(id)
    \/ \E id \in CallIds, sentiment \in Sentiments : OnReplyReceived(id, sentiment)
    \/ \E id \in CallIds : OnFollowupExhausted(id)
    \/ Tick

Spec == Init /\ [][Next]_vars

----------------------------------------------------------------------------
(* Two workers on one database.                                            *)
(*                                                                         *)
(* Every function opens its own connection; a SELECT runs outside any      *)
(* transaction and the statements up to the next conn.commit() are one     *)
(* write transaction.  Each step below is one SELECT or one committed      *)
(* write, in the order the function makes them.                            *)

\* the calls a worker may make
WorkerOps ==
    {"mark_dnc", "transition_account_status", "on_reply_received",
     "on_followup_exhausted", "enforce_no_reply_revisit"}

\* the statement a call starts with
FirstPc(op) ==
    CASE op \in {"mark_dnc", "transition_account_status"} -> "t_select"
      [] op = "on_reply_received"        -> "r_select"
      [] op = "on_followup_exhausted"    -> "f_select"
      [] op = "enforce_no_reply_revisit" -> "e_select"

\* enforce_no_reply_revisit between two rows of its loop: rows that do not
\* qualify are passed over, a cold row goes to the direct UPDATE, a contacted
\* row to transition_account_status
RECURSIVE NoReplyDispatch(_)
NoReplyDispatch(w) ==
    IF w.rows = <<>> THEN [w EXCEPT !.pc = "done"]
    ELSE LET row == Head(w.rows) IN
         IF Unanswered(row) /\ row.account_status = "cold"
         THEN [w EXCEPT !.pc = "e_update", !.contact_id = row.id]
         ELSE IF Unanswered(row) /\ row.account_status = "contacted"
         THEN [w EXCEPT !.pc = "t_select", !.contact_id = row.id, !.target = "revisit"]
         ELSE NoReplyDispatch([w EXCEPT !.rows = Tail(@)])

\* where a worker goes when its transition_account_status returns
AfterTransition(w, success) ==
    IF w.op = "enforce_no_reply_revisit"
    THEN IF success THEN [w EXCEPT !.pc = "e_override"]
         ELSE NoReplyDispatch([w EXCEPT !.rows = Tail(@)])
    ELSE [w EXCEPT !.pc = "done"]

AllIdle == \A w \in Workers : workers[w].pc = "idle"

\* a write by a worker
WorkerCommit(db) ==
    /\ contacts' = db.contacts
    /\ touch_log' = db.touch_log
    /\ UNCHANGED <<today, last, cfg, net, email_discovery_log, lru, hour, connections>>

WorkerReads ==
    UNCHANGED <<contacts, touch_log, today, last, cfg, net,
                email_discovery_log, lru, hour, connections>>

\* a worker begins a call on a contact (negative sentiment for a reply)
Begin(w, op, contact_id, new_status) ==
    /\ workers[w].pc = "idle"
    /\ workers' = [workers EXCEPT ![w] =
          [Idle EXCEPT !.op = op, !.pc = FirstPc(op), !.contact_id = contact_id,
                       !.target = IF op = "mark_dnc" THEN "dnc"
                                  ELSE IF op = "transition_account_status" THEN new_status
                                  ELSE ""]]
    /\ WorkerReads

\* transition_account_status: SELECT account_status, then the checks
TSelect(w) ==
    /\ workers[w].pc = "t_select"
    /\ LET id  == workers[w].contact_id
           old == StatusOrCold(contacts[id].account_status)
       IN  workers' = [workers EXCEPT ![w] =
              IF id \notin DOMAIN contacts THEN AfterTransition(@, FALSE)
              ELSE IF DncIsPermanent(old) \/ @.target \notin Allowed(old)
              THEN AfterTransition(@, FALSE)
              ELSE [@ EXCEPT !.pc = "t_update", !.current = old]]
    /\ WorkerReads

\* transition_account_status: UPDATE contacts, INSERT INTO touch_log, commit
TUpdate(w) ==
    /\ workers[w].pc = "t_update"
    /\ LET id == workers[w].contact_id
       IN  WorkerCommit(InsertTouch(UpdateContact(Db, id, TransitionUpdates(workers[w].target)),
                                    id, "email", "outbound", "Status"))
    /\ workers' = [workers EXCEPT ![w].pc = "t_score_select"]

\* compute_confidence_score: SELECT the row and sum the score
TScoreSelect(w) ==
    /\ workers[w].pc = "t_score_select"
    /\ workers' = [workers EXCEPT ![w] =
          [@ EXCEPT !.pc = "t_score_update",
                    !.score = Clamp(RawScore(contacts[workers[w].contact_id],
                                             cfg.confidence_weights))]]
    /\ WorkerReads

\* compute_confidence_score: UPDATE confidence_score, commit; the transition returns
TScoreUpdate(w) ==
    /\ workers[w].pc = "t_score_update"
    /\ WorkerCommit(UpdateContact(Db, workers[w].contact_id,
                                  [confidence_score |-> workers[w].score]))
    /\ workers' = [workers EXCEPT ![w] = AfterTransition(@, TRUE)]

\* on_reply_received: SELECT account_status
RSelect(w) ==
    /\ workers[w].pc = "r_select"
    /\ LET id      == workers[w].contact_id
           current == StatusOrCold(contacts[id].account_status)
       IN  workers' = [workers EXCEPT ![w] =
              IF id \notin DOMAIN contacts THEN [@ EXCEPT !.pc = "done"]
              ELSE [@ EXCEPT !.current = current,
                             !.pc = IF NegativeReplyApplies(current)
                                    THEN "r_update" ELSE "r_insert"]]
    /\ WorkerReads

\* on_reply_received: the direct UPDATE, commit
RUpdate(w) ==
    /\ workers[w].pc = "r_update"
    /\ WorkerCommit(UpdateContact(Db, workers[w].contact_id, NegativeReplyUpdates))
    /\ workers' = [workers EXCEPT ![w].pc = "r_insert"]

\* on_reply_received: INSERT the inbound row, commit
RInsert(w) ==
    /\ workers[w].pc = "r_insert"
    /\ WorkerCommit(InsertTouch(Db, workers[w].contact_id, "email", "inbound", "Reply received"))
    /\ workers' = [workers EXCEPT ![w].pc = "done"]

\* on_followup_exhausted: SELECT account_status
FSelect(w) ==
    /\ workers[w].pc = "f_select"
    /\ LET id      == workers[w].contact_id
           current == StatusOrCold(contacts[id].account_status)
       IN  workers' = [workers EXCEPT ![w] =
              IF id \notin DOMAIN contacts THEN [@ EXCEPT !.pc = "done"]
              ELSE [@ EXCEPT !.current = current,
                             !.pc = IF FollowupApplies(current) THEN "f_update" ELSE "done"]]
    /\ WorkerReads

\* on_followup_exhausted: the direct UPDATE, commit
FUpdate(w) ==
    /\ workers[w].pc = "f_update"
    /\ WorkerCommit(UpdateContact(Db, workers[w].contact_id, FollowupUpdates))
    /\ workers' = [workers EXCEPT ![w].pc = "done"]

\* enforce_no_reply_revisit: the SELECT of the rows and their touch counts
ESelect(w) ==
    /\ workers[w].pc = "e_select"
    /\ workers' = [workers EXCEPT ![w] = NoReplyDispatch([@ EXCEPT !.rows = NoReplyRows(Db)])]
    /\ WorkerReads

\* enforce_no_reply_revisit: the direct UPDATE of a cold row, commit
EUpdate(w) ==
    /\ workers[w].pc = "e_update"
    /\ WorkerCommit(UpdateContact(Db, workers[w].contact_id, NoReplyDirectUpdates))
    /\ workers' = [workers EXCEPT ![w] = NoReplyDispatch([@ EXCEPT !.rows = Tail(@)])]

\* enforce_no_reply_revisit: the UPDATE after a successful transition, commit
EOverride(w) ==
    /\ workers[w].pc = "e_override"
    /\ WorkerCommit(UpdateContact(Db, workers[w].contact_id, NoReplyOverride))
    /\ workers' = [workers EXCEPT ![w] = NoReplyDispatch([@ EXCEPT !.rows = Tail(@)])]

\* what happened before the two workers began: emails sent and opened, days
\* passing, the daily enforcement jobs
Before ==
    /\ AllIdle
    /\ \/ \E id \in DOMAIN contacts : OnEmailSent(id)
       \/ \E id \in DOMAIN contacts : OnEmailOpened(id)
       \/ EnforceRevisitExpiry
       \/ EnforceNoReplyRevisit
       \/ Tick

NextConc ==
    \/ Before
    \/ \E w \in Workers, op \in WorkerOps, id \in DOMAIN contacts, new_status \in Statuses :
          Begin(w, op, id, new_status)
    \/ \E w \in Workers : TSelect(w)
    \/ \E w \in Workers : TUpdate(w)
    \/ \E w \in Workers : TScoreSelect(w)
    \/ \E w \in Workers : TScoreUpdate(w)
    \/ \E w \in Workers : RSelect(w)
    \/ \E w \in Workers : RUpdate(w)
    \/ \E w \in Workers : RInsert(w)
    \/ \E w \in Workers : FSelect(w)
    \/ \E w \in Workers : FUpdate(w)
    \/ \E w \in Workers : ESelect(w)
    \/ \E w \in Workers : EUpdate(w)
    \/ \E w \in Workers : EOverride(w)

SpecConc == Init /\ [][NextConc]_vars

----------------------------------------------------------------------------
(* The daily jobs over several contacts.                                   *)
(*                                                                         *)
(* Two contacts receive emails, reply, run out of follow-ups and age, and  *)
(* the enforcement jobs and the maintenance run go over both.              *)

BatchIds == {1, 2}

InitBatch ==
    /\ contacts \in [BatchIds -> {NewContact(p) : p \in Profiles}]
    /\ touch_log = EmptyBag
    /\ today = 1
    /\ last = Call("", 0, "", None)
    /\ workers = [w \in Workers |-> Idle]
    /\ cfg = [confidence_weights |-> confidence_weights]
    /\ net = Offline
    /\ NothingProbed

NextBatch ==
    \/ \E id \in DOMAIN contacts : OnEmailSent(id)
    \/ \E id \in DOMAIN contacts : OnReplyReceived(id, "positive")
    \/ \E id \in DOMAIN contacts : OnFollowupExhausted(id)
    \/ EnforceRevisitExpiry
    \/ EnforceNoReplyRevisit
    \/ RunAccountMaintenance("")
    \/ Tick

SpecBatch == InitBatch /\ [][NextBatch]_vars

----------------------------------------------------------------------------
(* The scorer over contacts of every factor combination and over several   *)
(* weight tables.                                                          *)

\* a sent_at more than RecentDays before the first day of the model
LongAgo == 1 - (RecentDays + 1)

\* the scored columns of a contact, one value for each way a factor of the
\* scorer is true or false
ScoreProfiles ==
    [email_status : {"", "likely", "verified"},
     decision_maker_found : {0, 1},
     contact_name : {"n"},
     title_role : {"", "t"},
     website : {"", "w"},
     phone : {"", "p"},
     tier : {"B", "A"},
     signal_count : {0, 1},
     has_opens : {0, 1},
     last_sent : {EmptyDate, 1, LongAgo, Unparsable}]

\* the tables cfg.confidence_weights may hold: the default one, one whose
\* weights sum above 100, one with negative weights, one of both signs
WeightTables ==
    {confidence_weights,
     [f \in DOMAIN confidence_weights |-> MaxWeight],
     [f \in DOMAIN confidence_weights |-> 0 - MaxWeight],
     [confidence_weights EXCEPT !.account_engaged = 0 - MaxWeight,
                                !.email_verified = MaxWeight]}

InitScore ==
    /\ contacts \in [ContactIds -> {NewContact(p) : p \in ScoreProfiles}]
    /\ touch_log = EmptyBag
    /\ today = 1
    /\ last = Call("", 0, "", None)
    /\ workers = [w \in Workers |-> Idle]
    /\ cfg \in [confidence_weights : WeightTables]
    /\ net = Offline
    /\ NothingProbed

\* the contact is scored on demand, by the nightly batch, and by the
\* validated transitions that take it from cold to engaged
NextScore ==
    \/ \E id \in CallIds : ComputeConfidenceScore(id)
    \/ BatchRecalculateConfidence
    \/ \E id \in DOMAIN contacts, new_status \in {"contacted", "engaged"} :
          TransitionAccountStatus(id, new_status)

SpecScore == InitScore /\ [][NextScore]_vars

----------------------------------------------------------------------------
(* Email discovery for contacts of every kind, in every outside world.     *)

\* contact_name values: none, a first name, a first and a last name, a first
\* name with no letter, the same with a last name
Names == {<<>>, <<<<"A">>>>, <<<<"a">>, <<"b">>>>, <<<<"1">>>>, <<<<"1">>, <<"b">>>>}

\* the discovery columns of an imported contact: no address yet (pending),
\* or an address found in the notes (csv_importer.py:160-161)
DiscoveryProfiles ==
    [website : {"", Website}, domain : {"", Domain}, contact_name : Names,
     tier : {"A", "B"}, discovered_email : {NoAddress}, email_status : {"pending"},
     bounced_emails : {<<>>}, outreach_status : {"pending"}]
    \cup
    [website : {Website}, domain : {"", Domain}, contact_name : {<<<<"a">>, <<"b">>>>},
     tier : {"B"}, discovered_email : {Address(<<"n">>, Domain)}, email_status : {"likely"},
     bounced_emails : {<<>>}, outreach_status : {"pending"}]

\* the discovery columns of a contact whose mail bounced, as mark_bounced
\* leaves them (queue_manager.py:177-195): the address that bounced is the
\* last of bounced_emails and still the discovered_email
BouncedProfiles ==
    {[website |-> w, domain |-> Domain, contact_name |-> n, tier |-> "B",
      discovered_email |-> b[Len(b)], email_status |-> "bounced",
      bounced_emails |-> b, outreach_status |-> "pending"] :
        w \in {"", Website}, n \in Names,
        b \in {<<Address(<<"a">>, Domain)>>, <<Address(<<"info">>, Domain)>>,
               <<Address(<<"a">>, Domain), Address(<<"info">>, Domain)>>}}

InitDiscovery ==
    /\ contacts \in [ContactIds -> {NewContact(p) : p \in DiscoveryProfiles \cup BouncedProfiles}]
    /\ touch_log = EmptyBag
    /\ today = 1
    /\ last = Call("", 0, "", None)
    /\ workers = [w \in Workers |-> Idle]
    /\ cfg = [confidence_weights |-> confidence_weights]
    /\ net \in Nets
    \* Hunter is asked for tier A contacts only
    /\ (\A id \in ContactIds : contacts[id].tier # "A") => net.hunter = "none"
    /\ NothingProbed

NextDiscovery ==
    \/ \E id \in CallIds : DiscoverEmail(id)
    \/ \E id \in CallIds : RediscoverEmail(id)

SpecDiscovery == InitDiscovery /\ [][NextDiscovery]_vars

----------------------------------------------------------------------------
(* A contact left alone: the hooks and the manual transitions act on the    *)
(* first day only; from then on the scheduler runs the maintenance every    *)
(* day (daily_run.py:65-66) and nothing else touches the contact.  The      *)
(* three jobs of a maintenance run commit one by one, and each is a step.   *)

NextQuiet ==
    \/ \E id \in CallIds, new_status \in Targets :
          today = 1 /\ TransitionAccountStatus(id, new_status)
    \/ \E id \in CallIds : today = 1 /\ OnEmailSent(id)
    \/ \E id \in CallIds, sentiment \in Sentiments :
          today = 1 /\ OnReplyReceived(id, sentiment)
    \/ \E id \in CallIds : today = 1 /\ OnFollowupExhausted(id)
    \/ BatchRecalculateConfidence
    \/ EnforceRevisitExpiry
    \/ EnforceNoReplyRevisit
    \/ Tick

\* the expiry job of a day on which some timer has run out
ExpiryDue ==
    /\ \E id \in DOMAIN contacts : RevisitExpired(contacts[id])
    /\ EnforceRevisitExpiry

\* the days pass, and the maintenance runs on each of them
SpecQuiet ==
    /\ Init
    /\ [][NextQuiet]_vars
    /\ WF_vars(Tick)
    /\ WF_vars(ExpiryDue)

----------------------------------------------------------------------------
(* Bounces: a contact whose address is found, bounces, and is looked for    *)
(* again.                                                                    *)

\* the worlds of the bounce specification: no Hunter key, a domain with MX
\* records, an address on the website or none
BounceNets == {n \in Nets : n.hunter = "none" /\ n.dns = "records" /\ n.google = NoAddress}

\* an imported contact with a website and a name, no address yet, and no
\* bounce so far
BounceProfiles ==
    [website : {Website}, domain : {Domain}, contact_name : {<<<<"a">>, <<"b">>>>},
     tier : {"B"}, discovered_email : {NoAddress}, email_status : {"pending"},
     bounced_emails : {<<>>}, outreach_status : {"pending"}, bounce_count : {0}]

InitBounce ==
    /\ contacts \in [ContactIds -> {NewContact(p) : p \in BounceProfiles}]
    /\ touch_log = EmptyBag
    /\ today = 1
    /\ last = Call("", 0, "", None)
    /\ workers = [w \in Workers |-> Idle]
    /\ cfg = [confidence_weights |-> confidence_weights]
    /\ net \in BounceNets
    /\ NothingProbed

NextBounce ==
    \/ \E id \in DOMAIN contacts : MarkBounced(id)
    \/ \E id \in DOMAIN contacts : DiscoverEmail(id)
    \/ \E id \in DOMAIN contacts : RediscoverEmail(id)

SpecBounce == InitBounce /\ [][NextBounce]_vars

----------------------------------------------------------------------------
(* Bulk discovery: discover_batch goes over two contacts.                   *)

\* the largest LIMIT tried
MaxLimit == 2

\* imported contacts: pending with or without a domain column and with a
\* name of letters or one that begins with a digit, or with an address found
\* in the notes
BulkProfiles ==
    [website : {Website}, domain : {"", Domain},
     contact_name : {<<<<"a">>, <<"b">>>>, <<<<"1">>, <<"b">>>>},
     tier : {"B"}, discovered_email : {NoAddress}, email_status : {"pending"},
     bounced_emails : {<<>>}, outreach_status : {"pending"}]
    \cup
    [website : {Website}, domain : {Domain}, contact_name : {<<<<"a">>, <<"b">>>>},
     tier : {"B"}, discovered_email : {Address(<<"n">>, Domain)}, email_status : {"likely"},
     bounced_emails : {<<>>}, outreach_status : {"pending"}]

InitBulk ==
    /\ contacts \in [BatchIds -> {NewContact(p) : p \in BulkProfiles}]
    /\ touch_log = EmptyBag
    /\ today = 1
    /\ last = Call("", 0, "", None)
    /\ workers = [w \in Workers |-> Idle]
    /\ cfg = [confidence_weights |-> confidence_weights]
    /\ net \in BounceNets
    /\ NothingProbed

NextBulk ==
    \/ \E limit \in 1..MaxLimit : DiscoverBatch(limit)
    \/ \E id \in DOMAIN contacts : DiscoverEmail(id)

SpecBulk == InitBulk /\ [][NextBulk]_vars

----------------------------------------------------------------------------
(* The queue: the next batch is selected among two contacts whose account  *)
(* status changes.                                                          *)

\* the largest batch_size tried; the smallest is 0, which DAILY_SEND_TARGET
\* and --batch-size allow
MaxBatchSize == 2

\* the columns the selection reads: contacts ready for outreach, with or
\* without a domain column and with either priority, and contacts that miss
\* one condition of the selection: no address yet, no address with a status
\* that says otherwise, outreach under way, a bundle under way, a bundle
\* that was skipped
QueueColumns ==
    [domain : {"", Domain}, email_status : {"verified", "likely"},
     discovered_email : {Address(<<"n">>, Domain)}, outreach_status : {"pending"},
     priority_score : {45, 50}, bundles : {{}}]
    \cup
    [domain : {Domain}, email_status : {"pending", "verified"},
     discovered_email : {NoAddress}, outreach_status : {"pending"},
     priority_score : {50}, bundles : {{}}]
    \cup
    [domain : {Domain}, email_status : {"verified"},
     discovered_email : {Address(<<"n">>, Domain)}, outreach_status : {"sent"},
     priority_score : {50}, bundles : {{"sent"}}]
    \cup
    [domain : {Domain}, email_status : {"verified"},
     discovered_email : {Address(<<"n">>, Domain)}, outreach_status : {"pending"},
     priority_score : {50}, bundles : {{"approved"}, {"skipped"}}]

\* the contacts of the queue: those columns beside the scored ones
QueueProfiles == {columns @@ p : columns \in QueueColumns, p \in Profiles}

InitQueue ==
    /\ contacts \in [BatchIds -> {NewContact(p) : p \in QueueProfiles}]
    /\ touch_log = EmptyBag
    /\ today = 1
    /\ last = Call("", 0, "", None)
    /\ workers = [w \in Workers |-> Idle]
    /\ cfg = [confidence_weights |-> confidence_weights]
    /\ net = Offline
    /\ NothingProbed

NextQueue ==
    \/ \E batch_size \in 0..MaxBatchSize : SelectNextBatch(batch_size)
    \/ \E id \in DOMAIN contacts, new_status \in {"contacted", "dnc"} :
           TransitionAccountStatus(id, new_status)

SpecQueue == InitQueue /\ [][NextQueue]_vars

----------------------------------------------------------------------------
(* The probing budget: a contact that is probed again and again, by         *)
(* discovery, rediscovery and the team scrape, as the hours and days pass.  *)

\* the mail server's answers: the same to every candidate
RateNets ==
    [hunter    : {"none"},
     dns       : {"records"},
     scraped   : {<<>>},
     google    : {NoAddress},
     catch_all : Verdicts,
     rcpt      : {[i \in 1..MaxCandidates |-> v] : v \in Verdicts}]

RateProfiles ==
    [website : {Website}, domain : {Domain},
     contact_name : {<<<<"a">>, <<"b">>>>, <<<<"1">>, <<"b">>>>},
     tier : {"B"}, discovered_email : {NoAddress}, email_status : {"pending"},
     bounced_emails : {<<>>}, outreach_status : {"pending"}]

InitRate ==
    /\ contacts \in [ContactIds -> {NewContact(p) : p \in RateProfiles}]
    /\ touch_log = EmptyBag
    /\ today = 1
    /\ last = Call("", 0, "", None)
    /\ workers = [w \in Workers |-> Idle]
    /\ cfg = [confidence_weights |-> confidence_weights]
    /\ net \in RateNets
    /\ NothingProbed

NextRate ==
    \/ \E id \in DOMAIN contacts : DiscoverEmail(id)
    \/ \E id \in DOMAIN contacts : RediscoverEmail(id)
    \/ \E id \in DOMAIN contacts, members \in TeamPages : DiscoverTeamEmails(id, members)
    \/ NextHour
    \/ Tick

SpecRate == InitRate /\ [][NextRate]_vars

----------------------------------------------------------------------------
(* Properties of the account status machine. *)

\* the transition table of the specification (section 4.1), as edges
TransitionTable ==
    {<<"cold", "contacted">>, <<"cold", "revisit">>, <<"cold", "dnc">>,
     <<"contacted", "engaged">>, <<"contacted", "revisit">>, <<"contacted", "dnc">>,
     <<"engaged", "qualified">>, <<"engaged", "revisit">>, <<"engaged", "dnc">>,
     <<"qualified", "partnered">>, <<"qualified", "revisit">>, <<"qualified", "dnc">>,
     <<"partnered", "revisit">>, <<"partnered", "dnc">>,
     <<"revisit", "cold">>, <<"revisit", "dnc">>}

\* the lifecycle columns of a row
Lifecycle(row) == <<row.account_status, row.next_action, row.next_action_date>>

\* the step is a call of op on an existing contact
Called(op) == last'.op = op /\ last'.contact_id \in DOMAIN contacts

\* C1: a call transition_account_status(contact, to) whose (from, to) is not
\* an edge of the transition table (to = from, to no status at all, from =
\* dnc included) returns success = False and leaves account_status as it was.
C1_GraphClosure ==
    [][Called("transition_account_status")
       /\ <<contacts[last'.contact_id].account_status, last'.arg>> \notin TransitionTable
       => /\ last'.ret.success = FALSE
          /\ contacts'[last'.contact_id].account_status
               = contacts[last'.contact_id].account_status]_vars

\* a transition against the table has been asked for and refused
C1_Witness ==
    /\ last.op = "transition_account_status"
    /\ last.ret.error = "Invalid transition"
    /\ last.ret.old_status = "engaged"
    /\ last.arg \in {"engaged", "contacted", "explicit-no"}
    /\ contacts[last.contact_id].account_status = "engaged"

\* C2: on a contact that is dnc, no transition_account_status call succeeds,
\* whatever its target, and a further mark_dnc fails too and leaves status,
\* next_action and next_action_date as the first mark_dnc left them.
C2_DncRefusesTransitions ==
    [][(Called("transition_account_status") \/ Called("mark_dnc"))
       /\ contacts[last'.contact_id].account_status = "dnc"
       => /\ last'.ret.success = FALSE
          /\ Lifecycle(contacts'[last'.contact_id]) = Lifecycle(contacts[last'.contact_id])]_vars

\* mark_dnc has been called on a contact that was dnc already
C2_Witness ==
    /\ last.op = "mark_dnc"
    /\ last.ret.success = FALSE
    /\ last.ret.old_status = "dnc"
    /\ Lifecycle(contacts[last.contact_id]) = <<"dnc", "permanent_dnc", EmptyDate>>

\* C3: in sequential execution of the public operations, a contact whose
\* account_status is dnc is dnc after every later call.
C3_DncPermanent ==
    [][\A id \in DOMAIN contacts :
          contacts[id].account_status = "dnc" => contacts'[id].account_status = "dnc"]_vars

\* a direct-write hook has run on a dnc contact
C3_Witness ==
    /\ last.op \in {"on_reply_received", "on_followup_exhausted"}
    /\ last.op = "on_reply_received" => last.arg = "negative"
    /\ last.contact_id \in DOMAIN contacts
    /\ contacts[last.contact_id].account_status = "dnc"

\* C4: with two workers on one contact, one in mark_dnc and the other in
\* transition_account_status, on_reply_received (negative),
\* on_followup_exhausted or enforce_no_reply_revisit, each reading the status
\* and writing it in separate statements, no write changes the account_status
\* of a contact that has been written as dnc.
C4_DncSurvivesInterleaving ==
    [][~(\E id \in DOMAIN contacts :
            /\ contacts[id].account_status = "dnc"
            /\ contacts'[id].account_status # "dnc")]_vars

\* C5: a transition_account_status call that returns success = False (no such
\* contact, contact dnc, target not allowed) changes no column of any contact
\* and appends no touch_log row.
C5_FailureHasNoEffect ==
    [][last'.op = "transition_account_status" /\ last'.ret.success = FALSE
       => contacts' = contacts /\ touch_log' = touch_log]_vars

\* a transition has failed on a contact with touches on record
C5_Witness ==
    /\ last.op = "transition_account_status"
    /\ last.ret.success = FALSE
    /\ last.ret.error = "Contact is DNC"
    /\ touch_log # EmptyBag

\* C6: in sequential execution, the direct writes of on_reply_received,
\* on_followup_exhausted and enforce_no_reply_revisit included, every call
\* that changes a contact's account_status from s to another status t takes
\* an edge s -> t of the transition table.
C6_OnlyTableEdges ==
    [][\A id \in DOMAIN contacts :
          contacts'[id].account_status # contacts[id].account_status
          => <<contacts[id].account_status, contacts'[id].account_status>> \in TransitionTable]_vars

\* a direct write (no validated transition) has parked a contact
C6_Witness ==
    /\ last.op \in {"on_followup_exhausted", "enforce_no_reply_revisit"}
    /\ \E id \in DOMAIN contacts :
          /\ contacts[id].account_status = "revisit"
          /\ contacts[id].next_action \in {"followup_exhausted", "no_reply_revisit"}
          /\ contacts[id].last_touch_date = today

\* C7: after a successful transition_account_status(contact, revisit) the
\* contact has next_action_date = today + revisit_no_reply_days, next_action =
\* revisit_expiry and last_touch_date = today, whatever status it came from.
C7_RevisitTimer ==
    (/\ last.op = "transition_account_status"
     /\ last.arg = "revisit"
     /\ last.ret.success)
    => /\ contacts[last.contact_id].account_status = "revisit"
       /\ contacts[last.contact_id].next_action_date = today + revisit_no_reply_days
       /\ contacts[last.contact_id].next_action = "revisit_expiry"
       /\ contacts[last.contact_id].last_touch_date = today

\* a validated transition to revisit from the far end of the lifecycle, on a
\* day after the contact's earlier touches
C7_Witness ==
    /\ last.op = "transition_account_status"
    /\ last.arg = "revisit"
    /\ last.ret.success
    /\ last.ret.old_status = "partnered"
    /\ today > 1

\* C8: on_reply_received with sentiment negative on a contact that is not dnc
\* sets account_status = revisit, next_action = negative_reply_revisit and
\* next_action_date = today + revisit_negative_days; on a dnc contact it
\* leaves the three columns as they were.
C8_NegativeReply ==
    [][Called("on_reply_received") /\ last'.arg = "negative"
       => IF contacts[last'.contact_id].account_status # "dnc"
          THEN Lifecycle(contacts'[last'.contact_id])
                 = <<"revisit", "negative_reply_revisit", today + revisit_negative_days>>
          ELSE Lifecycle(contacts'[last'.contact_id])
                 = Lifecycle(contacts[last'.contact_id])]_vars

\* a negative reply has parked a contact that had been engaged or beyond (its
\* score still carries the account-engaged weight)
C8_Witness ==
    /\ last.op = "on_reply_received"
    /\ last.arg = "negative"
    /\ last.contact_id \in DOMAIN contacts
    /\ Lifecycle(contacts[last.contact_id])
         = <<"revisit", "negative_reply_revisit", today + revisit_negative_days>>
    /\ contacts[last.contact_id].confidence_score
         = Clamp(RawScore([contacts[last.contact_id] EXCEPT !.account_status = "engaged"],
                          confidence_weights))

SentRow(contact_id) ==
    [contact_id |-> contact_id, channel |-> "email", direction |-> "outbound",
     subject |-> "Email sent"]

\* C10: on_email_sent on an existing contact moves a cold contact to
\* contacted and leaves any other account_status as it was; in every case
\* (status past cold, dnc) it appends one outbound email row 'Email sent' to
\* touch_log and sets last_touch_date = today.
C10_EmailSent ==
    [][Called("on_email_sent")
       => /\ contacts'[last'.contact_id].account_status
               = IF contacts[last'.contact_id].account_status = "cold"
                 THEN "contacted" ELSE contacts[last'.contact_id].account_status
          /\ CopiesIn(SentRow(last'.contact_id), touch_log')
               = CopiesIn(SentRow(last'.contact_id), touch_log) + 1
          /\ contacts'[last'.contact_id].last_touch_date = today]_vars

\* an email has been sent to a dnc contact on a later day than its last touch:
\* no transition fired, the row and the date were written
C10_Witness ==
    /\ last.op = "on_email_sent"
    /\ last.contact_id \in DOMAIN contacts
    /\ contacts[last.contact_id].account_status = "dnc"
    /\ contacts[last.contact_id].last_touch_date = today
    /\ today > 1
    /\ CopiesIn(SentRow(last.contact_id), touch_log) = 1

\* C11: on_email_opened moves a contacted contact to engaged (the open after
\* the first email to a cold contact ends in engaged); on a contact in any
\* other status, engaged after an earlier open included, it changes no column
\* of the contact and appends no touch_log row.
C11_EmailOpened ==
    [][Called("on_email_opened")
       => IF contacts[last'.contact_id].account_status = "contacted"
          THEN contacts'[last'.contact_id].account_status = "engaged"
          ELSE contacts' = contacts /\ touch_log' = touch_log]_vars

\* cold, one email sent, then opened: the contact is engaged and touch_log
\* holds the sent row and the rows of the two transitions, nothing else
C11_Witness ==
    /\ last.op = "on_email_opened"
    /\ last.contact_id \in DOMAIN contacts
    /\ contacts[last.contact_id].account_status = "engaged"
    /\ CopiesIn(SentRow(last.contact_id), touch_log) = 1
    /\ OutboundCount(touch_log, last.contact_id) = 3
    /\ InboundCount(touch_log, last.contact_id) = 0

\* C12: on_followup_exhausted on a contact in cold, contacted or engaged sets
\* account_status = revisit, next_action = followup_exhausted and
\* next_action_date = today + revisit_no_reply_days; on a contact in
\* qualified, partnered, revisit or dnc it changes nothing.
C12_FollowupExhausted ==
    [][Called("on_followup_exhausted")
       => IF contacts[last'.contact_id].account_status \in {"cold", "contacted", "engaged"}
          THEN Lifecycle(contacts'[last'.contact_id])
                 = <<"revisit", "followup_exhausted", today + revisit_no_reply_days>>
          ELSE contacts' = contacts /\ touch_log' = touch_log]_vars

\* the follow-ups of an engaged contact have run out and it is parked
C12_Witness ==
    /\ last.op = "on_followup_exhausted"
    /\ last.contact_id \in DOMAIN contacts
    /\ Lifecycle(contacts[last.contact_id])
         = <<"revisit", "followup_exhausted", today + revisit_no_reply_days>>
    /\ OutboundCount(touch_log, last.contact_id) = 2

\* the contacts whose revisit timer has run out: in revisit with a
\* next_action_date that is set and not after today
Expired == {id \in DOMAIN contacts :
              /\ contacts[id].account_status = "revisit"
              /\ contacts[id].next_action_date # EmptyDate
              /\ contacts[id].next_action_date <= today}

Unreplied == {id \in DOMAIN contacts :
                /\ contacts[id].account_status \in {"cold", "contacted"}
                /\ OutboundCount(touch_log, id) >= 3
                /\ InboundCount(touch_log, id) = 0}

\* C14: enforce_no_reply_revisit leaves every cold or contacted contact with
\* >= 3 outbound email rows and 0 inbound rows at account_status = revisit,
\* next_action = no_reply_revisit, next_action_date = today +
\* revisit_no_reply_days (last_touch_date = today), the same on the direct
\* write for cold and on the transition-then-override for contacted; every
\* other contact is unchanged and the value returned is the number parked.
C14_NoReplyRevisit ==
    [][last'.op = "enforce_no_reply_revisit"
       => /\ \A id \in DOMAIN contacts :
                IF id \in Unreplied
                THEN /\ Lifecycle(contacts'[id])
                          = <<"revisit", "no_reply_revisit", today + revisit_no_reply_days>>
                     /\ contacts'[id].last_touch_date = today
                ELSE contacts'[id] = contacts[id]
          /\ last'.ret.count = Cardinality(Unreplied)]_vars

\* one call has parked two contacts: one was cold again after an expired
\* revisit and was written directly (no row added to its three), the other
\* was contacted after two emails and went through the validated transition
\* (a fourth row)
C14_Witness ==
    /\ last.op = "enforce_no_reply_revisit"
    /\ last.ret.count = 2
    /\ \A id \in DOMAIN contacts :
          Lifecycle(contacts[id]) = <<"revisit", "no_reply_revisit", today + revisit_no_reply_days>>
    /\ \E a, b \in DOMAIN contacts :
          /\ OutboundCount(touch_log, a) = 3
          /\ CopiesIn(SentRow(a), touch_log) = 1
          /\ OutboundCount(touch_log, b) = 4
          /\ CopiesIn(SentRow(b), touch_log) = 2

\* C15: with revisit_no_reply_days >= 1, a run_account_maintenance that
\* follows a completed run_account_maintenance with no call and no midnight
\* in between returns reactivated = 0 and parked = 0 and changes no
\* account_status; so does an enforce_revisit_expiry that follows an
\* enforce_revisit_expiry on the same day (count 0).
C15_MaintenanceIdempotent ==
    [][/\ (/\ last.op = "run_account_maintenance" /\ ~last.ret.raised
           /\ last'.op = "run_account_maintenance" /\ ~last'.ret.raised)
          => /\ last'.ret.reactivated = 0
             /\ last'.ret.parked = 0
             /\ \A id \in DOMAIN contacts :
                   contacts'[id].account_status = contacts[id].account_status
       /\ (last.op = "enforce_revisit_expiry" /\ last'.op = "enforce_revisit_expiry")
          => /\ last'.ret.count = 0
             /\ \A id \in DOMAIN contacts :
                   contacts'[id].account_status = contacts[id].account_status]_vars

\* a maintenance run has found nothing to do on a day on which one contact
\* was parked for not replying and the other reactivated
C15_Witness ==
    /\ last.op = "run_account_maintenance"
    /\ ~last.ret.raised
    /\ last.ret.reactivated = 0
    /\ last.ret.parked = 0
    /\ last.ret.recalculated = 2
    /\ \E a, b \in DOMAIN contacts :
          /\ contacts[a].next_action = "no_reply_revisit"
          /\ contacts[a].last_touch_date = today
          /\ contacts[b].account_status = "cold"
          /\ contacts[b].last_touch_date = today
          /\ today > 1

\* C16: a run_account_maintenance in which batch_recalculate_confidence or
\* enforce_revisit_expiry raises still runs the sub-steps after it and
\* returns.
C16_MaintenanceSurvivesFailure ==
    [][last'.op = "run_account_maintenance"
       /\ last'.arg \in {"batch_recalculate_confidence", "enforce_revisit_expiry"}
       => /\ ~last'.ret.raised
          /\ "enforce_no_reply_revisit" \in last'.ret.ran]_vars

\* C17: after every call that changes a contact's account_status (validated
\* transition, event hook, enforcement job), the stored confidence_score is
\* the score the scorer computes from the contact's columns as they now are;
\* a contact moved out of engaged, qualified or partnered no longer carries
\* the account-engaged weight.
C17_ScoreFollowsStatus ==
    [][\A id \in DOMAIN contacts :
          contacts'[id].account_status # contacts[id].account_status
          => contacts'[id].confidence_score
               = Clamp(RawScore(contacts'[id], cfg.confidence_weights))]_vars

\* C18: in every reachable state, under every weight table (weights summing
\* above 100, negative weights), every contact's confidence_score is in
\* 0..100, and the value compute_confidence_score returned is the value it
\* stored.
C18_ScoreBounds ==
    /\ \A id \in DOMAIN contacts : contacts[id].confidence_score \in 0..100
    /\ (last.op = "compute_confidence_score" /\ last.contact_id \in DOMAIN contacts)
       => last.ret.score = contacts[last.contact_id].confidence_score

\* a contact has been scored under a table that sums below zero for it: 0
\* was stored and returned
C18_Witness ==
    /\ last.op = "compute_confidence_score"
    /\ last.contact_id \in DOMAIN contacts
    /\ RawScore(contacts[last.contact_id], cfg.confidence_weights) < 0
    /\ contacts[last.contact_id].confidence_score = 0
    /\ last.ret.score = 0

\* the factors of the scorer that are true of a contact row
Factors(row) ==
    {f \in DOMAIN confidence_weights :
        CASE f = "email_verified"       -> row.email_status = "verified"
          [] f = "email_likely"         -> row.email_status = "likely"
          [] f = "decision_maker_found" -> \/ row.decision_maker_found # 0
                                           \/ row.contact_name # "" /\ row.title_role # ""
          [] f = "website_exists"       -> row.website # ""
          [] f = "phone_exists"         -> row.phone # ""
          [] f = "high_value_tier"      -> row.tier \in {"A", "HOT"}
          [] f = "has_news_signal"      -> row.signal_count > 0
          [] f = "account_engaged"      -> row.account_status \in {"engaged", "qualified", "partnered"}
          [] f = "has_opens"            -> row.has_opens > 0
          [] f = "recent_activity"      -> /\ row.last_sent \notin {EmptyDate, Unparsable}
                                           /\ today - row.last_sent <= RecentDays}

\* the score compute_confidence_score gives a contact with the columns of
\* profile and the given account_status
ScoreOf(profile, account_status) ==
    compute_confidence_score(
        [contacts  |-> (AbsentId :> [NewContact(profile) EXCEPT !.account_status = account_status]),
         touch_log |-> EmptyBag], AbsentId).ret

\* C19: with the default weights, a contact whose true factors include all
\* the true factors of another contact (email verified and email likely
\* exclude each other) is scored no lower than the other.
C19_ScoreMonotone ==
    (/\ last.op = "compute_confidence_score"
     /\ last.contact_id \in DOMAIN contacts
     /\ cfg.confidence_weights = confidence_weights)
    => LET mine == Factors(contacts[last.contact_id]) IN
       \A profile \in ScoreProfiles, account_status \in {"cold", "engaged"} :
          Factors([NewContact(profile) EXCEPT !.account_status = account_status])
              \subseteq mine
          => ScoreOf(profile, account_status) <= last.ret.score

\* an engaged contact with every factor but email verified has been scored
\* under the default weights: no less than the same contact before it was
\* engaged and with no phone on file
C19_Witness ==
    /\ last.op = "compute_confidence_score"
    /\ last.contact_id \in DOMAIN contacts
    /\ cfg.confidence_weights = confidence_weights
    /\ Factors(contacts[last.contact_id]) = DOMAIN confidence_weights \ {"email_verified"}
    /\ last.ret.score
         > Clamp(RawScore([contacts[last.contact_id] EXCEPT !.account_status = "cold", !.phone = ""],
                          confidence_weights))

----------------------------------------------------------------------------
(* Properties of email discovery. *)

\* the domain discover_email works with for a contact row
DomainOf(row) == IF row.domain # "" THEN row.domain ELSE extract_domain(row.website)

\* C20: for a contact with no address on file and a domain that has an MX
\* record, when the scrape finds no address, the search finds none, Hunter
\* finds none and every SMTP probe of a candidate ends without a verdict,
\* discover_email returns ('', needs_manual) and stores no discovered_email.
C20_NoGuess ==
    [][(/\ Called("discover_email")
        /\ contacts[last'.contact_id].discovered_email = NoAddress
        /\ DomainOf(contacts[last'.contact_id]) # ""
        /\ net.dns = "records"
        /\ net.hunter = "none"
        /\ scrape_emails_from_website(contacts[last'.contact_id].website, FALSE) = <<>>
        /\ net.google = NoAddress
        /\ \A i \in DOMAIN net.rcpt : net.rcpt[i] = "None")
       => /\ ~last'.ret.raised
          /\ last'.ret.email = NoAddress
          /\ last'.ret.status = "needs_manual"
          /\ contacts'[last'.contact_id].discovered_email = NoAddress]_vars

\* the step is a call of discover_email or rediscover_email on an existing
\* contact that returned
Resolved ==
    /\ Called("discover_email") \/ Called("rediscover_email")
    /\ ~last'.ret.raised

\* the positions in calls of the probes of candidates (validate_smtp of an
\* address other than the gibberish one)
CandidateProbes(calls) ==
    {i \in DOMAIN calls :
        calls[i].fn = "validate_smtp" /\ \A d \in Domains : calls[i].arg # Gibberish(d)}

\* is_catch_all answered True in the call: the server accepted the gibberish
\* address, now or when the answer was cached
CatchAllAccepted(calls) ==
    \E i \in DOMAIN calls : calls[i].fn = "is_catch_all" /\ calls[i].result.catch_all

\* C21: a call of discover_email or rediscover_email in which the catch-all
\* probe of the domain is accepted neither returns nor stores email_status
\* verified, and when the server accepts a candidate the call returns and
\* stores that candidate as likely.
C21_CatchAllSafety ==
    [][(Resolved /\ CatchAllAccepted(last'.ret.calls))
       => /\ last'.ret.status # "verified"
          /\ contacts'[last'.contact_id].email_status # "verified"
          /\ \A i \in CandidateProbes(last'.ret.calls) :
                last'.ret.calls[i].result.verdict = "True"
                => /\ last'.ret.status = "likely"
                   /\ last'.ret.email = last'.ret.calls[i].arg
                   /\ contacts'[last'.contact_id].email_status = "likely"
                   /\ contacts'[last'.contact_id].discovered_email = last'.ret.calls[i].arg]_vars

\* rediscover_email has found the catch-all answer True in the cache, the
\* server has accepted a candidate, and the candidate is stored as likely
C21_Witness ==
    /\ last.op = "rediscover_email"
    /\ last.contact_id \in DOMAIN contacts
    /\ ~last.ret.raised
    /\ \E i \in DOMAIN last.ret.calls :
          /\ last.ret.calls[i].fn = "is_catch_all"
          /\ last.ret.calls[i].result.cached
          /\ last.ret.calls[i].result.catch_all
    /\ \E i \in CandidateProbes(last.ret.calls) :
          /\ last.ret.calls[i].result.verdict = "True"
          /\ last.ret.email = last.ret.calls[i].arg
    /\ contacts[last.contact_id].email_status = "likely"

\* the addresses recorded in the bounced_emails column of a row
Bounced(row) == {row.bounced_emails[j] : j \in DOMAIN row.bounced_emails}

\* C22: rediscover_email never returns an address of the contact's
\* bounced_emails, and the discovered_email it leaves is the address it
\* returns, or the one that was there when it returns none.
C22_RediscoveryExclusion ==
    [][(Called("rediscover_email") /\ ~last'.ret.raised)
       => /\ last'.ret.email \notin Bounced(contacts[last'.contact_id])
          /\ contacts'[last'.contact_id].discovered_email =
                IF last'.ret.email # NoAddress THEN last'.ret.email
                ELSE contacts[last'.contact_id].discovered_email]_vars

\* rediscover_email on a contact named "a b" whose address a@ bounced: the
\* server refused every candidate and the pattern score chose the address,
\* which is not a@ although a@ scores highest
C22_Witness ==
    /\ last.op = "rediscover_email"
    /\ last.contact_id \in DOMAIN contacts
    /\ ~last.ret.raised
    /\ contacts[last.contact_id].contact_name = <<<<"a">>, <<"b">>>>
    /\ Address(<<"a">>, Domain) \in Bounced(contacts[last.contact_id])
    /\ CandidateProbes(last.ret.calls) # {}
    /\ \A i \in CandidateProbes(last.ret.calls) : last.ret.calls[i].result.verdict = "False"
    /\ last.ret.status = "likely"
    /\ last.ret.email = Address(<<"a", "b">>, Domain)
    /\ pattern_score(Address(<<"a">>, Domain)) >= pattern_score(last.ret.email)

\* the addresses the scrape and the search of the call found, in order
FoundIn(calls) ==
    LET IsFind(c) == c.fn = "scrape_emails_from_website" \/ c.fn = "_google_search_email"
        finds == SelectSeq(calls, IsFind)
        RECURSIVE Gather(_)
        Gather(i) ==
            IF i > Len(finds) THEN <<>>
            ELSE (IF finds[i].fn = "_google_search_email"
                  THEN (IF finds[i].result = NoAddress THEN <<>> ELSE <<finds[i].result>>)
                  ELSE finds[i].result) \o Gather(i + 1)
    IN  Gather(1)

\* the candidates of discover_email for the row in the priority order:
\* the found addresses, then the generated patterns not among them; the
\* addresses with no valid syntax are left out
Priority(row, found) ==
    LET name     == parse_name(row.contact_name)
        patterns == IF name.first = <<>> THEN <<>>
                    ELSE generate_email_variations(name.first, name.last,
                                                   DomainOf(row), FALSE).list
        NotFound(p) == \A j \in DOMAIN found : found[j] # p
    IN  SelectSeq(found \o SelectSeq(patterns, NotFound), validate_syntax)

\* the probes of candidates the call made, in the order it made them
ProbesOf(calls) ==
    LET IsProbe(c) == c.fn = "validate_smtp" /\ \A d \in Domains : c.arg # Gibberish(d)
    IN  SelectSeq(calls, IsProbe)

\* the call went as far as the SMTP probing (step 5)
ReachedProbing(calls) == \E i \in DOMAIN calls : calls[i].fn = "is_catch_all"

C24_ResolutionPolicy ==
    [][(/\ Called("discover_email")
        /\ ~last'.ret.raised
        /\ ReachedProbing(last'.ret.calls)
        /\ \A i \in CandidateProbes(last'.ret.calls) :
              last'.ret.calls[i].result.verdict = "None"
        /\ FoundIn(last'.ret.calls) # <<>>)
       => LET found == FoundIn(last'.ret.calls)
          IN  /\ last'.ret.status = "likely"
              /\ \E j \in DOMAIN found : last'.ret.email = found[j]
              /\ contacts'[last'.contact_id].discovered_email = last'.ret.email
              /\ contacts'[last'.contact_id].email_status = "likely"]_vars

\* discover_email has probed a scraped address and the generated patterns of
\* "a b", all without a verdict, and has returned the scraped address
C24_Witness ==
    /\ last.op = "discover_email"
    /\ last.contact_id \in DOMAIN contacts
    /\ ~last.ret.raised
    /\ contacts[last.contact_id].contact_name = <<<<"a">>, <<"b">>>>
    /\ LET probes == ProbesOf(last.ret.calls)
           found  == FoundIn(last.ret.calls)
       IN  /\ found = <<Address(<<"info">>, Domain)>>
           /\ Len(probes) > 2
           /\ \A k \in DOMAIN probes : probes[k].result.verdict = "None"
           /\ last.ret.email = found[1]
    /\ last.ret.status = "likely"
    /\ contacts[last.contact_id].discovered_email = Address(<<"info">>, Domain)

\* the call asked DNS for the MX records of the domain
AskedDns(calls) ==
    \E i \in DOMAIN calls : calls[i].fn = "validate_mx" /\ ~calls[i].result.cached

\* C25: a timeout of an external call is inconclusive: when the MX lookup of
\* a discover_email or rediscover_email call times out, the call neither
\* returns nor stores invalid or exhausted.
C25_TimeoutInconclusive ==
    [][(Resolved /\ AskedDns(last'.ret.calls) /\ net.dns = "timeout")
       => /\ last'.ret.status \notin {"invalid", "exhausted"}
          /\ contacts'[last'.contact_id].email_status \notin {"invalid", "exhausted"}]_vars

\* the terminal classifications of a contact's address
Terminal == {"verified", "likely", "invalid", "needs_manual", "exhausted"}

\* C26: discover_email and rediscover_email never raise: for every contact
\* and every answer of DNS, the web and the mail server the call returns a
\* terminal status, with an address exactly when the status is verified or
\* likely, and the stored email_status is the status returned.
C26_NeverRaises ==
    [][(Called("discover_email") \/ Called("rediscover_email"))
       => /\ ~last'.ret.raised
          /\ last'.ret.status \in Terminal
          /\ last'.ret.email # NoAddress <=> last'.ret.status \in {"verified", "likely"}
          /\ contacts'[last'.contact_id].email_status = last'.ret.status]_vars

----------------------------------------------------------------------------
(* Properties of the probing budget. *)

\* C27: the connections opened to the mail server of one domain within one
\* hour never exceed discovery_per_domain_per_hour, and the connections
\* opened within one day never exceed discovery_daily_cap.
C27_CapsGateEveryProbe ==
    /\ \A d \in Domains : connections.hour[d] <= discovery_per_domain_per_hour
    /\ connections.day <= discovery_daily_cap

\* the smtp_probe rows logged today, and those logged for domain d this hour
LoggedToday ==
    BagCardinality([r \in {q \in DOMAIN email_discovery_log : q.created_at.day = today}
                      |-> email_discovery_log[r]])
LoggedThisHour(d) ==
    BagCardinality([r \in {q \in DOMAIN email_discovery_log :
                             /\ q.detail = d
                             /\ q.created_at.day = today
                             /\ q.created_at.hour = hour}
                      |-> email_discovery_log[r]])

\* a probe of domain d now would exceed a cap
OverCap(d) ==
    \/ LoggedToday >= discovery_daily_cap
    \/ LoggedThisHour(d) >= discovery_per_domain_per_hour

\* validate_smtp was called in the call, for the gibberish address or for a
\* candidate
Probed(calls) == \E i \in DOMAIN calls : calls[i].fn = "validate_smtp"

----------------------------------------------------------------------------
(* Properties of the first steps of discover_email. *)

\* C29: discover_email on a contact that has a non-empty discovered_email
\* with email_status verified or likely returns that address and that status,
\* makes no MX lookup, scrape, search or SMTP probe, opens no connection, and
\* leaves every stored field of every contact unchanged.
C29_ShortCircuit ==
    [][(/\ Called("discover_email")
        /\ contacts[last'.contact_id].discovered_email # NoAddress
        /\ contacts[last'.contact_id].email_status \in {"verified", "likely"})
       => /\ ~last'.ret.raised
          /\ last'.ret.email = contacts[last'.contact_id].discovered_email
          /\ last'.ret.status = contacts[last'.contact_id].email_status
          /\ last'.ret.calls = <<>>
          /\ contacts' = contacts
          /\ email_discovery_log' = email_discovery_log
          /\ connections' = connections
          /\ lru' = lru]_vars

\* discover_email has returned the stored address of a contact resolved as
\* likely whose domain column is empty, with nothing looked up and the
\* column still empty
C29_Witness ==
    /\ last.op = "discover_email"
    /\ last.contact_id \in DOMAIN contacts
    /\ contacts[last.contact_id].website # ""
    /\ contacts[last.contact_id].domain = ""
    /\ ~last.ret.raised
    /\ last.ret.status = "likely"
    /\ last.ret.email # NoAddress
    /\ last.ret.email = contacts[last.contact_id].discovered_email
    /\ last.ret.calls = <<>>

\* the call was not ended by step 1 or by the Hunter lookup, and the contact
\* has a domain: the call comes to the MX check
ComesToMxCheck ==
    /\ Called("discover_email")
    /\ ~(/\ contacts[last'.contact_id].discovered_email # NoAddress
         /\ contacts[last'.contact_id].email_status \in {"verified", "likely"})
    /\ DomainOf(contacts[last'.contact_id]) # ""
    /\ ~last'.ret.raised
    /\ \A i \in DOMAIN last'.ret.calls : last'.ret.calls[i].fn # "hunter_find"

\* C30: when DNS holds no MX record for the contact's domain, a discover_email
\* call that comes to the MX check stores email_status = invalid, returns
\* ('', invalid), and makes no website scrape, search query, catch-all probe
\* or SMTP probe: the MX lookup is all it does.
C30_NoMxStops ==
    [][(ComesToMxCheck /\ net.dns = "no_records")
       => /\ last'.ret.email = NoAddress
          /\ last'.ret.status = "invalid"
          /\ contacts'[last'.contact_id].email_status = "invalid"
          /\ Len(last'.ret.calls) = 1
          /\ last'.ret.calls[1].fn = "validate_mx"
          /\ ~last'.ret.calls[1].result.has_mx
          /\ connections' = connections
          /\ email_discovery_log' = email_discovery_log]_vars

\* discover_email has marked invalid a contact with a website and a name
\* whose domain has no MX record, after the MX lookup alone
C30_Witness ==
    /\ net.dns = "no_records"
    /\ last.op = "discover_email"
    /\ last.contact_id \in DOMAIN contacts
    /\ ~last.ret.raised
    /\ last.ret.status = "invalid"
    /\ contacts[last.contact_id].email_status = "invalid"
    /\ contacts[last.contact_id].website # ""
    /\ contacts[last.contact_id].contact_name = <<<<"a">>, <<"b">>>>
    /\ Len(last.ret.calls) = 1

----------------------------------------------------------------------------
(* Properties of the classification of probed addresses. *)

\* the server accepted a candidate in the call
CandidateAccepted(calls) ==
    \E i \in CandidateProbes(calls) : calls[i].result.verdict = "True"

\* C39: when the catch-all probe of the domain gets no verdict (the server
\* neither accepts nor refuses the gibberish address), a call of
\* discover_email or rediscover_email in which the server accepts a candidate
\* neither returns nor stores email_status verified.
C39_VerifiedNeedsRejection ==
    [][(Resolved /\ net.catch_all = "None" /\ CandidateAccepted(last'.ret.calls))
       => /\ last'.ret.status # "verified"
          /\ contacts'[last'.contact_id].email_status # "verified"]_vars

\* C40: the address a call of discover_email or rediscover_email returns and
\* stores with status verified or likely is not one the mail server refused
\* (RCPT answered, and not with 250) in a probe of that same call.
C40_RefusedNotStored ==
    [][(Resolved /\ last'.ret.status \in {"verified", "likely"})
       => \A i \in CandidateProbes(last'.ret.calls) :
             (/\ last'.ret.calls[i].arg = last'.ret.email
              /\ last'.ret.calls[i].arg = contacts'[last'.contact_id].discovered_email)
             => last'.ret.calls[i].result.verdict # "False"]_vars

\* the deep pass of the call found nothing new: the contact has no domain,
\* DNS holds no MX record for it, no candidate was left to probe, or no probe
\* of a candidate was accepted or left without a verdict
NothingNew ==
    \/ DomainOf(contacts[last'.contact_id]) = ""
    \/ net.dns = "no_records"
    \/ ~ReachedProbing(last'.ret.calls)
    \/ \A i \in CandidateProbes(last'.ret.calls) :
          last'.ret.calls[i].result.verdict = "False"

\* C32: a call of rediscover_email whose deep pass finds nothing new returns
\* ('', exhausted) and stores email_status = exhausted.
C32_ExhaustedWhenNothingNew ==
    [][(Called("rediscover_email") /\ ~last'.ret.raised /\ NothingNew)
       => /\ last'.ret.email = NoAddress
          /\ last'.ret.status = "exhausted"
          /\ contacts'[last'.contact_id].email_status = "exhausted"]_vars

----------------------------------------------------------------------------
(* Properties of bounces. *)

\* C35: a contact eligible for sending (email_status verified or likely, with
\* a discovered_email) has a discovered_email that is not recorded in its
\* bounced_emails.
C35_EligibleNotBounced ==
    \A id \in DOMAIN contacts :
        (/\ contacts[id].email_status \in {"verified", "likely"}
         /\ contacts[id].discovered_email # NoAddress)
        => contacts[id].discovered_email \notin Bounced(contacts[id])

----------------------------------------------------------------------------
(* Properties of the batch jobs. *)

\* the contacts discover_batch(limit) selects: the first limit pending
\* contacts with a domain
Selected(limit) ==
    LET pending == {id \in DOMAIN contacts :
                       contacts[id].email_status = "pending" /\ contacts[id].domain # ""}
    IN  {id \in pending : Cardinality({other \in pending : other < id}) < limit}

\* C31: discover_batch returns its list of results, with one result for
\* every contact it selected, whatever discover_email does for any one of
\* them.
C31_BatchSurvivesOneFailure ==
    [][last'.op = "discover_batch"
       => /\ ~last'.ret.raised
          /\ \A id \in Selected(last'.ret.limit) :
                \E i \in DOMAIN last'.ret.results : last'.ret.results[i].contact_id = id]_vars

----------------------------------------------------------------------------
(* Properties of the enforcement jobs over the life of a contact. *)

\* the contacts the step has parked: not in revisit before, in revisit after
Parked == {id \in DOMAIN contacts :
             /\ contacts[id].account_status # "revisit"
             /\ contacts'[id].account_status = "revisit"}

\* the emails sent to a contact: the 'Email sent' rows of on_email_sent
EmailsSent(contact_id) == CopiesIn(SentRow(contact_id), touch_log)

\* C33: enforce_no_reply_revisit parks a contact only if on_email_sent has
\* occurred for it at least three times and touch_log holds no inbound row
\* of it.
C33_ParkedAfterThreeEmails ==
    [][last'.op = "enforce_no_reply_revisit"
       => \A id \in Parked :
             /\ EmailsSent(id) >= NoReplyTouches
             /\ InboundCount(touch_log, id) = 0]_vars

\* C36: a contact whose revisit timer has run out when run_account_maintenance
\* begins is cold when the run returns.
C36_ExpiredIsColdAfterMaintenance ==
    [][(last'.op = "run_account_maintenance" /\ ~last'.ret.raised)
       => \A id \in Expired : contacts'[id].account_status = "cold"]_vars

\* C38: a contact with account_status = dnc has next_action = permanent_dnc
\* and an empty next_action_date.
C38_DncColumns ==
    \A id \in DOMAIN contacts :
        contacts[id].account_status = "dnc"
        => /\ contacts[id].next_action = "permanent_dnc"
           /\ contacts[id].next_action_date = EmptyDate

\* a contact that was parked with a timer and then marked dnc has received
\* a further email: the hook has written to the row and the dnc columns stand
C38_Witness ==
    /\ last.op = "on_email_sent"
    /\ last.contact_id \in DOMAIN contacts
    /\ contacts[last.contact_id].account_status = "dnc"
    /\ contacts[last.contact_id].next_action = "permanent_dnc"
    /\ contacts[last.contact_id].next_action_date = EmptyDate
    /\ \E t \in TouchesOf(touch_log, last.contact_id) : t.direction = "inbound"
    /\ EmailsSent(last.contact_id) >= 1

\* the timer of the contact ends within the days of the model, and touch_log
\* has room for the row of one more transition
WithinBounds(id) ==
    /\ contacts[id].next_action_date <= MaxDay
    /\ TouchCount(touch_log, TouchesOf(touch_log, id)) < MaxTouch

C34_BatchIsEligibleAndSmall ==
    [][last'.op = "select_next_batch" =>
         LET selected == last'.ret.selected
         IN  /\ \A k \in DOMAIN selected :
                   /\ selected[k] \in DOMAIN contacts
                   /\ contacts[selected[k]].email_status \in {"verified", "likely"}
                   /\ contacts[selected[k]].discovered_email # NoAddress
                   /\ contacts[selected[k]].outreach_status = "pending"
                   /\ contacts[selected[k]].account_status # "dnc"
             /\ \A j, k \in DOMAIN selected :
                   (j # k /\ contacts[selected[j]].domain # "")
                       => contacts[selected[j]].domain # contacts[selected[k]].domain
             /\ Len(selected) <= last'.ret.batch_size]_vars

====
